---- MODULE Spec2Model ----
(***************************************************************************)
(* The extension-aware (HIP-5) resolver of fingertip as a state machine.   *)
(*                                                                         *)
(* One top-level query runs at a time; its Go call stack is the variable   *)
(* stack (one frame per activation of queryInternal, flatten,              *)
(* resolveCNAME, resolveNS and of the stub's LookupIP), and the value a    *)
(* callee hands back to its caller is the variable ret.  The collaborators *)
(* of the resolver (the recursive stub, the trusted root endpoint, the     *)
(* registered handlers and the delegated name servers) are fixed tables    *)
(* in the style of the fixtures of hip5_test.go; the sync predicate is a   *)
(* boolean that the environment may flip at any moment.                    *)
(*                                                                         *)
(* A DNS name is the sequence of its labels; a fully qualified name ends   *)
(* with the empty root label, so "a.forever." is <<"a","forever","">> and  *)
(* "a.forever" is <<"a","forever">>.  An error value is the sequence of    *)
(* the messages of its wrap chain, outermost first; nil is <<>>.           *)
(*                                                                         *)
(* The functions of package dnssec (filterDS, canonicalNameCompare and     *)
(* covers, verifySignatures and Verify, VerifyDNSKeys, shouldDowngradeKey) *)
(* follow the resolver; each is run on bounded sets of arguments by a      *)
(* specification of its own (SpecDS, SpecCmp, SpecVerify, SpecKeys,        *)
(* SpecRSA).                                                               *)
(*                                                                         *)
(* The last part is the supervision of the hnsd child process (package     *)
(* proc and the goroutine of main that reads hnsErrCh), with its threads   *)
(* interleaved statement by statement: SpecSynced for the callers of       *)
(* Synced, SpecProc for the app with the user clicking Start and Stop,     *)
(* SpecRetry for the app started once with an hnsd that keeps crashing.    *)
(* It reuses the seven variables; the comment at its head says what each   *)
(* holds there.                                                            *)
(***************************************************************************)
EXTENDS Integers, Sequences, FiniteSets, TLC

VARIABLES
    synced,     \* what syncCheck() returns when called now
    handlers,   \* h.handlers: the registered extension tags
    stack,      \* call stack of the running query, innermost frame last
    ret,        \* the value the last returning activation handed back
    top,        \* the running (or last) top-level query
    log,        \* external calls and activations of the running query
    nact        \* queryInternal activations started by the running query

vars == <<synced, handlers, stack, ret, top, log, nact>>

(***************************************************************************)
(* Program constants and bounds.                                           *)
(***************************************************************************)
\* flatten refuses depth > 10
MaxDepth == 10
\* longest handler CNAME chain the fixtures offer
MaxChain == 12
\* how many LookupIP calls may be nested before the model stops following
MaxLookupNest == 13

(***************************************************************************)
(* Names.                                                                  *)
(***************************************************************************)
Root == ""

\* strings.ToLower on one label
ToLower(l) ==
    CASE l = "LOOP" -> "loop"
      [] l = "ETH" -> "eth"
      [] l = "FOREVER" -> "forever"
      [] l = "_EXAMPLE" -> "_example"
      [] l = "NS2" -> "ns2"
      [] l = "ZU" -> "zu"
      [] l = "Z" -> "z"
      [] OTHER -> l

ToLowerName(n) == [i \in 1..Len(n) |-> ToLower(n[i])]

\* dns.Fqdn: append the trailing dot when it is missing
Fqdn(n) == IF Len(n) > 0 /\ n[Len(n)] = Root THEN n ELSE Append(n, Root)

\* dns.CanonicalName: lowercased and fully qualified
CanonicalName(n) == ToLowerName(Fqdn(n))

\* strings.EqualFold on names
EqualFold(a, b) == ToLowerName(a) = ToLowerName(b)

\* the labels of a name without the root label
Labels(n) == IF Len(n) > 0 /\ n[Len(n)] = Root THEN SubSeq(n, 1, Len(n) - 1) ELSE n

\* LastNLabels: the last n labels, lowercased, without trailing dot
LastNLabels(name, n) ==
    LET ls == ToLowerName(Labels(name))
    IN  IF Len(ls) <= n THEN ls ELSE SubSeq(ls, Len(ls) - n + 1, Len(ls))

\* dns.IsSubDomain(parent, child): child is parent or below it
IsSubDomain(parent, child) ==
    LET p == ToLowerName(Labels(parent))
        c == ToLowerName(Labels(child))
    IN  Len(p) <= Len(c) /\ SubSeq(c, Len(c) - Len(p) + 1, Len(c)) = p

(***************************************************************************)
(* Records, errors and results.                                            *)
(***************************************************************************)
NoName == <<>>

\* a resource record: target is the CNAME target or NS host, data the rest
RR(owner, rtype, target, data) ==
    [owner |-> owner, rtype |-> rtype, target |-> target, data |-> data]

A(owner, ip) == RR(owner, "A", NoName, ip)
AAAA(owner, ip) == RR(owner, "AAAA", NoName, ip)
CNAME(owner, target) == RR(owner, "CNAME", target, "")
NS(owner, host) == RR(owner, "NS", host, "")
DS(owner, digest) == RR(owner, "DS", NoName, digest)

nil == <<>>

errNotSynced == <<"handshake resolver not fully synced">>
errHIP5NotSupported == <<"no supported hip-5 record found">>
errBadCNAMETarget == <<"bad cname target">>
errMaxDepthReached == <<"max depth reached">>
ErrServFail == <<"servfail">>

\* fmt.Errorf(msg + ": %w", err)
Wrap(msg, err) == <<msg>> \o err

\* errors.Is(err, target) for a sentinel target
ErrorsIs(err, target) == \E i \in 1..Len(err) : err[i] = target[1]

DNSResult(records, secure, err) == [Records |-> records, Secure |-> secure, Err |-> err]

\* res == nil in queryInternal
NoRes == [Records |-> <<>>, Secure |-> FALSE, Err |-> <<"no stub result">>]

(***************************************************************************)
(* The collaborators, as fixed tables (the fixtures of hip5_test.go,       *)
(* extended).  Names under the TLD "forever" and "rev" are served by       *)
(* handlers, names under "test" by the recursive stub.                     *)
(***************************************************************************)
ChainLabels == <<"h1", "h2", "h3", "h4", "h5", "h6", "h7", "h8", "h9", "h10",
                 "h11", "h12", "h13", "h14", "h15">>

ChainIndex(l) ==
    IF \E k \in 1..Len(ChainLabels) : ChainLabels[k] = l
    THEN CHOOSE k \in 1..Len(ChainLabels) : ChainLabels[k] = l
    ELSE 0

\* the name at which the chain <<hk, x, "forever">> ends
ChainTail(x) ==
    IF x \in {"s", "i", "c"} THEN <<x, "test", Root>> ELSE <<x, "forever", Root>>

\* the chain name with k CNAME hops before ChainTail(x)
ChainName(k, x) == <<ChainLabels[k], x, "forever", Root>>

\* the recursive stub's original Query function
stubQuery(name, qtype) ==
    CASE name = <<"s", "test", Root>> ->
            DNSResult(IF qtype = "A" THEN <<A(name, "stub-secure")>> ELSE <<>>, TRUE, nil)
      [] name = <<"i", "test", Root>> ->
            DNSResult(IF qtype = "A" THEN <<A(name, "stub-insecure")>> ELSE <<>>, FALSE, nil)
      [] name = <<"c", "test", Root>> ->
            DNSResult(<<CNAME(name, <<"i", "test", Root>>),
                        RR(<<"i", "test", Root>>, qtype, NoName, "stub-insecure")>>, FALSE, nil)
      [] name = <<"ns", "test", Root>> ->
            DNSResult(IF qtype = "A" THEN <<A(name, "ip1")>> ELSE <<>>, FALSE, nil)
      [] name = <<"ns2", "test", Root>> ->
            DNSResult(IF qtype = "A" THEN <<A(name, "ip2")>> ELSE <<>>, FALSE, nil)
      [] name = <<"ns3", "test", Root>> ->
            DNSResult(IF qtype = "A" THEN <<A(name, "ip3")>> ELSE <<>>, FALSE, nil)
      [] name = <<"ns12", "test", Root>> ->
            DNSResult(IF qtype = "A" THEN <<A(name, "ip1"), A(name, "ip2")>> ELSE <<>>,
                      FALSE, nil)
      [] name = <<"ns31", "test", Root>> ->
            DNSResult(IF qtype = "A" THEN <<A(name, "ip3"), A(name, "ip1")>> ELSE <<>>,
                      FALSE, nil)
      [] name = <<"v", "test", Root>> ->
            DNSResult(<<>>, FALSE, nil)
      [] name = <<"e", "test", Root>> ->
            DNSResult(<<>>, FALSE, <<"nxdomain">>)
      [] name = <<"w", "test", Root>> ->
            DNSResult(<<>>, FALSE, Wrap("exchange failed", ErrServFail))
      [] OTHER ->
            DNSResult(<<>>, FALSE, ErrServFail)

\* a response of the trusted root endpoint or of a delegated name server
Msg(err, rcode, tc, answer, ns, extra, sig) ==
    [err |-> err, Rcode |-> rcode, Truncated |-> tc,
     Answer |-> answer, Ns |-> ns, Extra |-> extra, sig |-> sig]

RcodeSuccess == 0

\* h.exchangeRoot for the question (tld, NS)
exchangeRoot(tld) ==
    CASE tld = <<"forever", Root>> ->
            Msg(nil, RcodeSuccess, FALSE, <<>>,
                <<NS(tld, <<"x", "_example", Root>>),
                  RR(tld, "RRSIG", NoName, "sig"),
                  NS(tld, <<"y", "_ex2", Root>>),
                  NS(tld, <<"z", "_other", Root>>)>>, <<>>, "none")
      [] tld = <<"rev", Root>> ->
            Msg(nil, RcodeSuccess, FALSE, <<>>,
                <<NS(tld, <<"y", "_ex2", Root>>),
                  NS(tld, <<"x", "_EXAMPLE", Root>>)>>, <<>>, "none")
      [] tld = <<"test", Root>> ->
            Msg(nil, RcodeSuccess, FALSE, <<>>,
                <<NS(tld, <<"ns", "nic", "test", Root>>)>>, <<>>, "none")
      [] tld = <<"down", Root>> ->
            Msg(<<"i/o timeout">>, RcodeSuccess, FALSE, <<>>, <<>>, <<>>, "none")
      [] tld = <<"refused", Root>> ->
            Msg(nil, 5, FALSE, <<>>, <<NS(tld, <<"x", "_example", Root>>)>>, <<>>, "none")
      [] tld = <<"trunc", Root>> ->
            Msg(nil, RcodeSuccess, TRUE, <<>>, <<NS(tld, <<"x", "_example", Root>>)>>, <<>>, "none")
      [] OTHER ->
            Msg(nil, RcodeSuccess, FALSE, <<>>, <<>>, <<>>, "none")

errNoPancakes == <<"couldn't make pancakes">>

\* what a handler returns
HandlerResult(rrs, err) == [rrs |-> rrs, err |-> err]

\* the _example handler's records for the two-label names
exampleLeafData(qname, l1) ==
    LET sib(l) == <<l, qname[Len(qname) - 1], Root>>
    IN  CASE l1 = "loop" -> HandlerResult(<<CNAME(qname, <<"LOOP", "forever">>)>>, nil)
          [] l1 = "hello" -> HandlerResult(<<CNAME(qname, <<"i", "test", Root>>)>>, nil)
          [] l1 = "secure" -> HandlerResult(<<CNAME(qname, <<"s", "test">>)>>, nil)
          [] l1 = "indirect" -> HandlerResult(<<CNAME(qname, sib("loop"))>>, nil)
          [] l1 = "cf" -> HandlerResult(<<CNAME(qname, <<"c", "test", Root>>)>>, nil)
          [] l1 = "leaf" -> HandlerResult(<<A(qname, "handler"), AAAA(qname, "handler")>>, nil)
          [] l1 = "empty" -> HandlerResult(<<>>, nil)
          [] l1 = "dsonly" -> HandlerResult(<<DS(qname, "ds-ok"), A(qname, "handler")>>, nil)
          [] l1 = "dscn" -> HandlerResult(<<DS(qname, "ds-ok"), CNAME(qname, <<"s", "test", Root>>)>>, nil)
          [] l1 = "mixed" -> HandlerResult(<<A(qname, "handler"), CNAME(qname, <<"s", "test", Root>>)>>, nil)
          [] l1 = "m1" -> HandlerResult(<<CNAME(qname, <<"e", "test", Root>>),
                                          CNAME(qname, <<"s", "test", Root>>)>>, nil)
          [] l1 = "m2" -> HandlerResult(<<CNAME(qname, <<"i", "test", Root>>),
                                          CNAME(qname, <<"s", "test", Root>>)>>, nil)
          [] l1 = "m3" -> HandlerResult(<<CNAME(qname, <<"e", "test", Root>>),
                                          CNAME(qname, sib("none"))>>, nil)
          [] l1 = "m4" -> HandlerResult(<<CNAME(qname, <<"s", "test", Root>>),
                                          CNAME(qname, qname)>>, nil)
          [] l1 = "m5" -> HandlerResult(<<CNAME(qname, <<"e", "test", Root>>),
                                          CNAME(qname, qname)>>, nil)
          [] l1 = "m6" -> HandlerResult(<<CNAME(qname, sib("none")),
                                          CNAME(qname, <<"e", "test", Root>>)>>, nil)
          [] l1 = "m7" -> HandlerResult(<<CNAME(qname, <<"bogus", "sd", "forever", Root>>),
                                          CNAME(qname, <<"s", "test", Root>>)>>, nil)
          [] l1 = "cyc1" -> HandlerResult(<<CNAME(qname, sib("cyc2"))>>, nil)
          [] l1 = "cyc2" -> HandlerResult(<<CNAME(qname, sib("cyc1"))>>, nil)
          [] OTHER -> HandlerResult(<<>>, errNoPancakes)

\* the zones the handler delegates with more than one record
NSZones == {"za", "zb", "zc", "ze", "zf", "zg", "zm", "zu", "zs", "zo"}

\* the delegation the handler returns for a name in the zone with label zl
zoneNS(zone, zl) ==
    LET host(l) == <<l, "test", Root>>
        other == <<"other", "forever", Root>>
    IN  CASE zl = "za" -> <<NS(zone, host("v")), NS(zone, host("ns"))>>
          [] zl = "zb" -> <<NS(zone, host("e")), NS(zone, host("ns"))>>
          [] zl = "zc" -> <<NS(zone, host("ns")), NS(zone, host("ns2"))>>
          [] zl = "ze" -> <<NS(zone, host("ns")), NS(zone, host("ns3"))>>
          [] zl = "zf" -> <<NS(zone, host("ns31"))>>
          [] zl = "zg" -> <<NS(zone, host("ns12"))>>
          [] zl = "zm" -> <<NS(zone, host("ns")), NS(other, host("ns"))>>
          [] zl = "zu" -> <<NS(zone, host("ns")), NS(<<"ZU", "FOREVER", Root>>, host("ns2"))>>
          [] zl = "zs" -> <<NS(zone, host("ns")), DS(other, "ds-ok")>>
          [] OTHER -> <<NS(other, host("ns"))>>

\* the handler registered under _example
exampleData(qname) ==
    LET ls == Labels(qname)
        l1 == IF Len(ls) > 0 THEN ls[1] ELSE ""
        zone == IF Len(ls) >= 2 THEN SubSeq(qname, Len(ls) - 1, Len(qname)) ELSE qname
    IN  CASE Len(ls) = 3 /\ ChainIndex(l1) > 1 ->
                HandlerResult(<<CNAME(qname, <<ChainLabels[ChainIndex(l1) - 1], ls[2], ls[3], Root>>)>>, nil)
          [] Len(ls) = 3 /\ ChainIndex(l1) = 1 ->
                HandlerResult(<<CNAME(qname, ChainTail(ls[2]))>>, nil)
          [] Len(ls) = 3 /\ ChainIndex(l1) = 0 /\ ls[2] = "d" ->
                HandlerResult(<<NS(zone, <<"ns", "test", Root>>)>>, nil)
          [] Len(ls) = 3 /\ ChainIndex(l1) = 0 /\ ls[2] = "sd" ->
                HandlerResult(<<NS(zone, <<"ns", "test", Root>>), DS(zone, "ds-ok")>>, nil)
          [] Len(ls) = 3 /\ ChainIndex(l1) = 0 /\ ls[2] = "n" ->
                HandlerResult(<<NS(zone, <<"ns">> \o zone)>>, nil)
          [] Len(ls) = 3 /\ ChainIndex(l1) = 0 /\ ls[2] \in NSZones ->
                HandlerResult(zoneNS(zone, ls[2]), nil)
          [] Len(ls) = 3 /\ ChainIndex(l1) = 0 /\ ls[2] \notin ({"d", "sd", "n"} \cup NSZones) ->
                HandlerResult(<<>>, <<"unexpected qname">>)
          [] Len(ls) \notin {2, 3} -> HandlerResult(<<>>, <<"unexpected qname">>)
          [] Len(ls) = 2 /\ l1 \in {"d", "sd"} ->
                HandlerResult(<<NS(qname, <<"ns", "test", Root>>)>>
                              \o (IF l1 = "sd" THEN <<DS(qname, "ds-ok")>> ELSE <<>>), nil)
          [] Len(ls) = 2 /\ l1 \notin {"d", "sd"} -> exampleLeafData(qname, l1)

\* the handler registered under _ex2
ex2Data(qname) ==
    IF Len(qname) = 3 /\ qname[1] = "two"
    THEN HandlerResult(<<A(qname, "handler2")>>, nil)
    ELSE HandlerResult(<<>>, <<"ex2: no record">>)

\* the handler registered under _eth
ethData(qname) ==
    CASE qname = <<"vitalik", "eth", Root>> -> HandlerResult(<<A(qname, "handler-eth")>>, nil)
      [] qname = <<"cn", "eth", Root>> -> HandlerResult(<<CNAME(qname, <<"s", "test", Root>>)>>, nil)
      [] OTHER -> HandlerResult(<<>>, <<"eth: no resolver">>)

Tags == {<<"_example">>, <<"_ex2">>, <<"_eth">>}

\* handler(ctx, qname, qtype, ns) of the handler registered as tag
CallHandler(tag, qname, qtype, ns) ==
    CASE tag = <<"_example">> -> exampleData(qname)
      [] tag = <<"_ex2">> -> ex2Data(qname)
      [] OTHER -> ethData(qname)

\* hardcoded .eth NS rrset pointing to the registry
\* (the data field holds its TTL)
ethNS ==
    <<RR(<<"eth", Root>>, "NS", <<"0x00000000000C2E074eC69A0dFb2997BA6C7d2e1e", "_eth", Root>>,
         "86400")>>

(***************************************************************************)
(* The pure parts of the resolver.                                         *)
(***************************************************************************)
RECURSIVE SelectSeq2(_, _)
\* the records of rrs whose type is in types, in order
SelectSeq2(rrs, types) ==
    IF rrs = <<>> THEN <<>>
    ELSE (IF Head(rrs).rtype \in types THEN <<Head(rrs)>> ELSE <<>>)
         \o SelectSeq2(Tail(rrs), types)

\* filterType: the records whose type equals qtype
filterType(rrs, qtype) == SelectSeq2(rrs, {qtype})

\* a resolver that takes every stub error for a reason to try HIP-5
StubFinalOnSuccess(res) == res.Err = nil

\* queryInternal: a stub result is final unless its error is SERVFAIL
StubIsFinal(res) == res.Err = nil \/ ~ErrorsIs(res.Err, ErrServFail)

\* a resolver that asks the stub for every name
SkipsStubNever(tld) == FALSE

\* queryInternal: the reserved TLD that skips the stub
SkipsStub(tld) == tld = <<"eth">>

\* a flattener that goes one level deeper before it refuses
DepthExceededLate(depth) == depth > MaxDepth + 1

\* a flattener that refuses one level earlier
DepthExceededEarly(depth) == depth >= MaxDepth

\* flatten: the depth at which it refuses to go on
DepthExceeded(depth) == depth > MaxDepth

\* a CNAME branch that reports every resolved target as secure
cnameResultSecure(res) == DNSResult(res.Records, TRUE, nil)

\* resolveCNAME: what it returns for the first target that resolved
cnameResult(res) == DNSResult(res.Records, res.Secure, nil)

\* a loop check that compares the target as the handler spelled it
IsBadTargetExact(target, qname) == target = qname

\* resolveCNAME: a CNAME that points at the name being resolved
IsBadTarget(target, qname) == CanonicalName(target) = qname

\* lookupExtensions: the supported HIP-5 NS records of the root's answer
SupportedNS(ns, hs) ==
    LET ok(rr) == rr.rtype = "NS" /\ LastNLabels(rr.target, 1) \in hs
        RECURSIVE Keep(_)
        Keep(rrs) == IF rrs = <<>> THEN <<>>
                     ELSE (IF ok(Head(rrs)) THEN <<Head(rrs)>> ELSE <<>>) \o Keep(Tail(rrs))
    IN  Keep(ns)

\* lookupExtensions(tld): the NS records to dispatch on, or an error;
\* asked tells whether the root endpoint was queried
lookupExtensions(tld, hs) ==
    LET fq == Fqdn(tld)
        r == exchangeRoot(fq)
    IN  IF fq = <<"eth", Root>> THEN [ext |-> ethNS, err |-> nil, asked |-> FALSE]
        ELSE IF r.err # nil THEN [ext |-> <<>>, err |-> r.err, asked |-> TRUE]
        ELSE IF r.Rcode # RcodeSuccess
             THEN [ext |-> <<>>, err |-> <<"hip-5 lookup failed with rcode">>, asked |-> TRUE]
        ELSE IF r.Truncated
             THEN [ext |-> <<>>, err |-> <<"response truncated">>, asked |-> TRUE]
        ELSE [ext |-> SupportedNS(r.Ns, hs), err |-> nil, asked |-> TRUE]

\* a dispatch that gives up after the first handler it called
HandlerDoneAlways(err) == TRUE

\* runHandlers: whether the loop stops after a handler call
HandlerDone(err) == err = nil

RECURSIVE runHandlersFrom(_, _, _, _, _, _, _)
\* runHandlers from the i-th NS record on; called lists the NS records whose
\* handler was invoked so far
runHandlersFrom(extensions, i, lastErr, called, qname, qtype, hs) ==
    IF i > Len(extensions) THEN [rrs |-> <<>>, err |-> lastErr, called |-> called]
    ELSE LET rr == extensions[i]
             tag == LastNLabels(rr.target, 1)
         IN  IF tag \in hs
             THEN LET r == CallHandler(tag, qname, qtype, rr)
                  IN  IF HandlerDone(r.err)
                      THEN [rrs |-> r.rrs, err |-> nil, called |-> Append(called, rr)]
                      ELSE runHandlersFrom(extensions, i + 1, r.err, Append(called, rr),
                                           qname, qtype, hs)
             ELSE runHandlersFrom(extensions, i + 1, lastErr, called, qname, qtype, hs)

\* runHandlers(ctx, extensions, qname, qtype)
runHandlers(extensions, qname, qtype, hs) ==
    runHandlersFrom(extensions, 1, nil, <<>>, qname, qtype, hs)

\* attemptHIP5Resolution up to its call of flatten: either an error, or the
\* records a handler supplied (toFlatten)
attemptHIP5Resolution(tld, qname, qtype, hs) ==
    LET none == [toFlatten |-> FALSE, rrs |-> <<>>, asked |-> FALSE, called |-> <<>>,
                 err |-> nil]
        x == lookupExtensions(tld, hs)
        r == runHandlers(x.ext, qname, qtype, hs)
    IN  IF tld = <<>>
        THEN [none EXCEPT !.err = <<"no hip-5 records in root zone apex">>]
        ELSE IF x.err # nil
        THEN [none EXCEPT !.err = Wrap("checking for hip-5 records failed", x.err),
                          !.asked = x.asked]
        ELSE IF Len(x.ext) > 0
        THEN IF r.err # nil
             THEN [none EXCEPT !.err = Wrap("hip-5 resolution failed", r.err),
                               !.asked = x.asked, !.called = r.called]
             ELSE [toFlatten |-> TRUE, rrs |-> r.rrs, asked |-> x.asked,
                   called |-> r.called, err |-> nil]
        ELSE [none EXCEPT !.err = errHIP5NotSupported, !.asked = x.asked]

\* a queryInternal that falls back on the stub's result whenever it has one
hip5FailureKeepsStub(res, errHip5) ==
    IF res # NoRes THEN res ELSE DNSResult(<<>>, FALSE, errHip5)

\* queryInternal: what it returns when the HIP-5 attempt ended with errHip5
hip5Failure(res, errHip5) ==
    IF res # NoRes /\ errHip5 = errHIP5NotSupported
    THEN res
    ELSE DNSResult(<<>>, FALSE, errHip5)

\* the secure flag attemptHIP5Resolution hands to flatten for handler records
HandlerSecure == TRUE

(***************************************************************************)
(* The delegated name servers and the validator's verdicts.  The field sig *)
(* of a response stands for what the DNSSEC validator makes of it: "valid" *)
(* (Verify returns Secure), "downgrade" (insecure without error), and      *)
(* anything else no verifiable signature; for a DNSKEY response "keys-ok"  *)
(* (VerifyDNSKeys returns a trusted key), "keys-none" (no usable DS) and   *)
(* anything else NoDNSKEY.                                                 *)
(***************************************************************************)
NoMsg == Msg(<<"nil message">>, RcodeSuccess, FALSE, <<>>, <<>>, <<>>, "nil")

\* a name server's positive response
Reply(answer, ns, extra, sig) == Msg(nil, RcodeSuccess, FALSE, answer, ns, extra, sig)

\* h.exchange: the response of the name server at ip to (qname, qtype)
exchange(ip, qname, qtype) ==
    LET ls == Labels(qname)
        l1 == IF Len(ls) > 0 THEN ls[1] ELSE ""
        zl == IF Len(ls) >= 2 THEN ls[Len(ls) - 1] ELSE ""
        zone == IF Len(ls) >= 2 THEN SubSeq(qname, Len(ls) - 1, Len(qname)) ELSE qname
        signed == zl = "sd"
        ok == IF signed THEN "valid" ELSE "none"
        by == IF signed THEN "wire-valid" ELSE "wire-none"
    IN  CASE qtype = "DNSKEY" ->
                Reply(<<RR(qname, "DNSKEY", NoName, "key1")>>, <<>>, <<>>,
                      IF ip = "ip1" THEN "keys-ok" ELSE "keys-bad")
          [] qtype # "DNSKEY" /\ ip = "ip2" ->
                Reply(<<RR(qname, qtype, NoName, by)>>, <<>>, <<>>, ok)
          [] qtype # "DNSKEY" /\ ip = "ip1" /\ Len(ls) = 3 /\ l1 = "ans" ->
                Reply(<<RR(qname, qtype, NoName, by)>>, <<>>, <<>>, ok)
          [] qtype # "DNSKEY" /\ ip = "ip1" /\ Len(ls) = 3 /\ l1 = "cn" ->
                Reply(<<CNAME(qname, <<"i", "test", Root>>)>>, <<>>, <<>>, ok)
          [] qtype # "DNSKEY" /\ ip = "ip1" /\ Len(ls) = 3 /\ l1 = "cs" ->
                Reply(<<CNAME(qname, <<"s", "test", Root>>)>>, <<>>, <<>>, ok)
          [] qtype # "DNSKEY" /\ ip = "ip1" /\ Len(ls) = 3 /\ l1 = "ref" ->
                Reply(<<>>, <<NS(qname, <<"ns2">> \o qname)>>,
                      <<A(<<"NS2">> \o qname, "ip2"), A(<<"other">> \o qname, "ip3")>>, ok)
          [] qtype # "DNSKEY" /\ ip = "ip1" /\ Len(ls) = 3 /\ l1 = "rr" ->
                Reply(<<>>, <<NS(zone, <<"ns", "test", Root>>)>>, <<>>, ok)
          [] qtype # "DNSKEY" /\ ip = "ip1" /\ Len(ls) = 3 /\ l1 = "tc" ->
                Msg(nil, RcodeSuccess, TRUE, <<RR(qname, qtype, NoName, by)>>, <<>>, <<>>, ok)
          [] qtype # "DNSKEY" /\ ip = "ip1" /\ Len(ls) = 3 /\ l1 = "bogus" ->
                Reply(<<RR(qname, qtype, NoName, "wire-bogus")>>, <<>>, <<>>, "bogus")
          [] qtype # "DNSKEY" /\ ip = "ip1" /\ Len(ls) = 3 /\ l1 = "dg" ->
                Reply(<<RR(qname, qtype, NoName, "wire-downgrade")>>, <<>>, <<>>,
                      IF signed THEN "downgrade" ELSE "none")
          [] qtype # "DNSKEY" /\ ip = "ip1" /\ Len(ls) = 3 /\ l1 = "nodata" ->
                Reply(<<>>, <<>>, <<>>, ok)
          [] qtype # "DNSKEY" /\ ip = "ip1" /\ Len(ls) = 3 /\ l1 = "dsleaf" ->
                Reply(<<>>, <<RR(qname, "NSEC", NoName, "nsec"), DS(qname, "ds-ok")>>, <<>>, ok)
          [] OTHER -> Msg(<<"i/o timeout">>, RcodeSuccess, FALSE, <<>>, <<>>, <<>>, "nil")

\* dnssec.VerifyDNSKeys on the DNSKEY response: the trusted keys or an error
VerifyDNSKeys(msg) ==
    CASE msg.sig = "keys-ok" -> [keys |-> {"key1"}, err |-> nil]
      [] msg.sig = "keys-none" -> [keys |-> {}, err |-> nil]
      [] OTHER -> [keys |-> {}, err |-> <<"no dnskey found">>]

\* a validator that takes a response without a verifiable signature for an
\* insecure one
VerifyOrInsecure(msg) ==
    CASE msg.sig = "valid" -> [secure |-> TRUE, err |-> nil]
      [] OTHER -> [secure |-> FALSE, err |-> nil]

\* dnssec.Verify on the response: Secure, or an error
Verify(msg) ==
    CASE msg.sig = "valid" -> [secure |-> TRUE, err |-> nil]
      [] msg.sig = "downgrade" -> [secure |-> FALSE, err |-> nil]
      [] OTHER -> [secure |-> FALSE, err |-> <<"no signatures">>]

(***************************************************************************)
(* The pure parts of the NS branch.                                        *)
(***************************************************************************)
\* a delegation check that trusts the owner of the first NS record
getDelegatedNameUnchecked(rrs, ds, qname) ==
    [zone |-> CanonicalName(rrs[1].owner), err |-> nil]

\* getDelegatedName: the common owner of the NS records, or an error
getDelegatedName(rrs, ds, qname) ==
    LET zone == CanonicalName(rrs[1].owner)
    IN  IF \E i \in 2..Len(rrs) : ~EqualFold(zone, rrs[i].owner)
        THEN [zone |-> NoName, err |-> <<"got NS owner name mismatch">>]
        ELSE IF ~IsSubDomain(zone, qname)
        THEN [zone |-> NoName, err |-> <<"qname isn't a child of zone">>]
        ELSE IF \E i \in 1..Len(ds) : ~EqualFold(zone, ds[i].owner)
        THEN [zone |-> NoName, err |-> <<"got DS owner name mismatch">>]
        ELSE [zone |-> zone, err |-> nil]

RECURSIVE GlueIPs(_, _)
\* lookupNSAddr: the addresses the glue gives for the NS host
GlueIPs(host, extra) ==
    IF extra = <<>> THEN <<>>
    ELSE (IF EqualFold(Head(extra).owner, host) /\ Head(extra).rtype \in {"A", "AAAA"}
          THEN <<Head(extra).data>> ELSE <<>>) \o GlueIPs(host, Tail(extra))

RECURSIVE exchangeNSFrom(_, _, _, _, _, _, _)
\* exchangeNS from the i-th address on: res and err are the Go variables
exchangeNSFrom(ips, i, res, err, asked, qname, qtype) ==
    IF i > Len(ips) THEN [msg |-> res, err |-> err, asked |-> asked]
    ELSE LET r == exchange(ips[i], qname, qtype)
             seen == Append(asked, ips[i])
         IN  IF r.err # nil
             THEN exchangeNSFrom(ips, i + 1, NoMsg, r.err, seen, qname, qtype)
             ELSE IF r.Truncated
             THEN exchangeNSFrom(ips, i + 1, r, <<"response truncated">>, seen, qname, qtype)
             ELSE [msg |-> r, err |-> nil, asked |-> seen]

\* exchangeNS(ctx, ips, qname, qtype)
exchangeNS(ips, qname, qtype) == exchangeNSFrom(ips, 1, NoMsg, nil, <<>>, qname, qtype)

\* queryDNSKeys(ctx, ips, ds, delegatedName)
queryDNSKeys(ips, ds, delegatedName) ==
    LET x == exchangeNS(ips, delegatedName, "DNSKEY")
    IN  IF x.err # nil THEN [keys |-> {}, err |-> x.err, asked |-> x.asked]
        ELSE [keys |-> VerifyDNSKeys(x.msg).keys, err |-> VerifyDNSKeys(x.msg).err,
              asked |-> x.asked]

(***************************************************************************)
(* The queries the model asks.                                             *)
(***************************************************************************)
QTypes == {"A", "AAAA"}

Forever(l) == <<l, "forever", Root>>

Queries ==
    ({ChainName(k, "s") : k \in 1..MaxChain} \X {"A"})
    \cup ({ChainName(k, x) : k \in {MaxDepth, MaxDepth + 1}, x \in {"loop", "leaf", "c"}} \X {"A"})
    \cup ({Forever(l) : l \in {"loop", "hello", "secure", "indirect", "cf", "leaf", "empty",
                               "dsonly", "dscn", "mixed", "m1", "m2", "m3", "m4", "m5", "m6",
                               "m7", "cyc1", "two", "none"}} \X {"A"})
    \cup ({Forever(l) : l \in {"leaf", "cf", "two"}} \X {"AAAA"})
    \cup ({<<"LOOP", "FOREVER">>, <<"secure", "forever">>,
           <<"two", "rev", Root>>, <<"none", "rev", Root>>, <<"leaf", "rev", Root>>,
           <<"s", "test", Root>>, <<"i", "test", Root>>, <<"c", "test", Root>>,
           <<"e", "test", Root>>, <<"w", "test", Root>>, <<"zz", "test", Root>>,
           <<"vitalik", "eth", Root>>, <<"cn", "eth", Root>>, <<"nobody", "ETH">>,
           <<Root>>, <<"a", "down", Root>>, <<"a", "refused", Root>>, <<"a", "trunc", Root>>,
           <<"a", "com", Root>>} \X {"A"})
    \cup ({<<l, "d", "forever", Root>> : l \in {"ans", "cn", "cs", "ref", "rr", "tc", "err", "nodata", "dsleaf"}}
          \X {"A"})
    \cup ({<<l, "sd", "forever", Root>> : l \in {"ans", "bogus", "dg", "ref", "dsleaf"}} \X {"A"})
    \cup ({<<"x", "n", "forever", Root>>} \X {"A"})
    \cup ({<<l, z, "forever", Root>> : l \in {"ans", "tc"}, z \in NSZones} \X {"A"})

(***************************************************************************)
(* The call stack.                                                         *)
(***************************************************************************)
NoRet == [from |-> "none"]

Top == stack[Len(stack)]

Pop == SubSeq(stack, 1, Len(stack) - 1)

\* the frame of queryInternal(ctx, name, qtype, depth), activation number id
QueryFrame(id, name, qtype, depth) ==
    [fn |-> "queryInternal", pc |-> "sync", id |-> id, name |-> name,
     qname |-> NoName, qtype |-> qtype, depth |-> depth, res |-> NoRes]

FlattenFrame(id, rrs, extra, secure, qname, qtype, depth) ==
    [fn |-> "flatten", pc |-> "enter", id |-> id, rrs |-> rrs, extra |-> extra,
     secure |-> secure, qname |-> qname, qtype |-> qtype, depth |-> depth]

CNAMEFrame(id, rrs, qname, qtype, depth) ==
    [fn |-> "resolveCNAME", pc |-> "loop", id |-> id, rrs |-> rrs, idx |-> 1,
     lastErr |-> nil, qname |-> qname, qtype |-> qtype, depth |-> depth]

NSFrame(id, rrs, ds, extra, qname, qtype, depth) ==
    [fn |-> "resolveNS", pc |-> "start", id |-> id, rrs |-> rrs, ds |-> ds,
     extra |-> extra, qname |-> qname, qtype |-> qtype, depth |-> depth,
     idx |-> 1, zone |-> NoName, msg |-> NoMsg, nsIPs |-> <<>>, secure |-> FALSE]

LookupFrame(id, host) ==
    [fn |-> "LookupIP", pc |-> "call", id |-> id, host |-> host]

\* an entry of the log
Ev(op, f, name, arg) ==
    [op |-> op, id |-> f.id, by |-> f.id, depth |-> f.depth, name |-> name, arg |-> arg]

\* the log entry of a re-entry into queryInternal made by activation f
Entry(id, f, depth, name, arg) ==
    [op |-> "query", id |-> id, by |-> f.id, depth |-> depth, name |-> name, arg |-> arg]

\* the callee returns val to its caller
Return(val) ==
    /\ stack' = Pop
    /\ ret' = [from |-> Top.fn, frame |-> Top, val |-> val]

\* the running activation goes on as frame f
Goto(f) == stack' = [stack EXCEPT ![Len(stack)] = f]

\* the running activation, now f, calls the activation g
Call(f, g) == stack' = Append([stack EXCEPT ![Len(stack)] = f], g)

At(fn, pc) == stack # <<>> /\ Top.fn = fn /\ Top.pc = pc

Returned(from) == ret.from \in from

Idle == stack = <<>>

(***************************************************************************)
(* The state after NewHIP5Resolver: no handler registered, no query        *)
(* running.  The sync predicate is the caller's and starts either way.     *)
(***************************************************************************)
Init ==
    /\ synced \in BOOLEAN
    /\ handlers = {}
    /\ stack = <<>>
    /\ ret = NoRet
    /\ top = [name |-> <<Root>>, qtype |-> "A"]
    /\ log = <<>>
    /\ nact = 0

\* the environment: the chain gets synced, or the daemon is stopped
SetSynced ==
    /\ synced' = ~synced
    /\ UNCHANGED <<handlers, stack, ret, top, log, nact>>

\* RegisterHandler(extension, handler), at start-up before the first query
RegisterHandler(tag) ==
    /\ Idle
    /\ nact = 0
    /\ tag \notin handlers
    /\ handlers' = handlers \cup {tag}
    /\ UNCHANGED <<synced, stack, ret, top, log, nact>>

\* query(ctx, name, qtype): a top-level query enters at depth 0
query(name, qtype) ==
    /\ Idle
    /\ stack' = <<QueryFrame(1, name, qtype, 0)>>
    /\ ret' = NoRet
    /\ top' = [name |-> name, qtype |-> qtype]
    /\ log' = <<>>
    /\ nact' = 1
    /\ UNCHANGED <<synced, handlers>>

\* a resolver that lets the re-entries pass the sync gate
SyncGateTopOnly ==
    /\ At("queryInternal", "sync")
    /\ LET f == Top
           qname == CanonicalName(f.name)
           tld == LastNLabels(qname, 1)
       IN  /\ log' = Append(log, Ev("sync", f, qname, IF synced THEN "synced" ELSE "unsynced"))
           /\ IF f.depth = 0 /\ ~synced
              THEN Return(DNSResult(<<>>, FALSE, errNotSynced))
              ELSE /\ Goto([f EXCEPT !.qname = qname,
                                     !.pc = IF SkipsStub(tld) THEN "hip5" ELSE "stub"])
                   /\ ret' = ret
    /\ UNCHANGED <<synced, handlers, top, nact>>

\* queryInternal: the sync gate, then the name is normalised
SyncGate ==
    /\ At("queryInternal", "sync")
    /\ LET f == Top
           qname == CanonicalName(f.name)
           tld == LastNLabels(qname, 1)
       IN  /\ log' = Append(log, Ev("sync", f, qname, IF synced THEN "synced" ELSE "unsynced"))
           /\ IF ~synced
              THEN Return(DNSResult(<<>>, FALSE, errNotSynced))
              ELSE /\ Goto([f EXCEPT !.qname = qname,
                                     !.pc = IF SkipsStub(tld) THEN "hip5" ELSE "stub"])
                   /\ ret' = ret
    /\ UNCHANGED <<synced, handlers, top, nact>>

\* queryInternal: the stub is asked first
StubQuery ==
    /\ At("queryInternal", "stub")
    /\ LET f == Top
           res == stubQuery(f.qname, f.qtype)
       IN  /\ log' = Append(log, Ev("stub", f, f.qname, ""))
           /\ IF StubIsFinal(res)
              THEN Return(res)
              ELSE /\ Goto([f EXCEPT !.res = res, !.pc = "hip5"])
                   /\ ret' = ret
    /\ UNCHANGED <<synced, handlers, top, nact>>

RECURSIVE HandlerEvents(_, _, _)
HandlerEvents(called, f, i) ==
    IF i > Len(called) THEN <<>>
    ELSE <<Ev("handler", f, called[i].target, LastNLabels(called[i].target, 1)[1])>>
         \o HandlerEvents(called, f, i + 1)

\* queryInternal calls attemptHIP5Resolution: root lookup and handlers, then
\* either the failure is turned into the result or flatten is called
AttemptHIP5 ==
    /\ At("queryInternal", "hip5")
    /\ LET f == Top
           tld == LastNLabels(f.qname, 1)
           x == attemptHIP5Resolution(tld, f.qname, f.qtype, handlers)
       IN  /\ log' = log \o (IF x.asked THEN <<Ev("root", f, Fqdn(tld), "")>> ELSE <<>>)
                         \o HandlerEvents(x.called, f, 1)
           /\ IF x.toFlatten
              THEN /\ Call([f EXCEPT !.pc = "flatten"],
                           FlattenFrame(f.id, x.rrs, <<>>, HandlerSecure, f.qname, f.qtype, f.depth))
                   /\ ret' = ret
              ELSE Return(hip5Failure(f.res, x.err))
    /\ UNCHANGED <<synced, handlers, top, nact>>

\* attemptHIP5Resolution after flatten, and the end of queryInternal
QueryReturn ==
    /\ At("queryInternal", "flatten")
    /\ Returned({"flatten"})
    /\ LET f == Top
           r == ret.val
       IN  IF r.Err = nil
           THEN Return(DNSResult(filterType(r.Records, f.qtype), r.Secure, nil))
           ELSE Return(hip5Failure(f.res, r.Err))
    /\ UNCHANGED <<synced, handlers, top, log, nact>>

\* a flatten that keeps the DS records of a response that is not secure
trustedDSAlways(rrs, secure) == SelectSeq2(rrs, {"DS"})

\* the DS records flatten goes on with: none unless the list is secure
trustedDS(rrs, secure) == IF secure THEN SelectSeq2(rrs, {"DS"}) ELSE <<>>

\* flatten: the depth bound, the partition, and the branch taken
flatten ==
    /\ At("flatten", "enter")
    /\ LET f == Top
           cnames == SelectSeq2(f.rrs, {"CNAME"})
           ns == SelectSeq2(f.rrs, {"NS"})
           ds == trustedDS(f.rrs, f.secure)
       IN  /\ log' = Append(log, Ev("flatten", f, f.qname, ""))
           /\ IF DepthExceeded(f.depth)
              THEN Return(DNSResult(<<>>, FALSE, Wrap("hip-5 resolution failed", errMaxDepthReached)))
              ELSE IF Len(cnames) > 0
              THEN /\ Call([f EXCEPT !.pc = "wait"],
                           CNAMEFrame(f.id, cnames, f.qname, f.qtype, f.depth))
                   /\ ret' = ret
              ELSE IF Len(ns) > 0
              THEN /\ Call([f EXCEPT !.pc = "wait"],
                           NSFrame(f.id, ns, ds, f.extra, f.qname, f.qtype, f.depth))
                   /\ ret' = ret
              ELSE IF Len(ds) > 0
              THEN Return(DNSResult(<<>>, FALSE, <<"error DS with no delegations">>))
              ELSE Return(DNSResult(f.rrs, f.secure, nil))
    /\ UNCHANGED <<synced, handlers, top, nact>>

\* flatten returns what resolveCNAME or resolveNS returned
FlattenReturn ==
    /\ At("flatten", "wait")
    /\ Returned({"resolveCNAME", "resolveNS"})
    /\ Return(ret.val)
    /\ UNCHANGED <<synced, handlers, top, log, nact>>

\* resolveCNAME: the next CNAME of the list
resolveCNAME ==
    /\ At("resolveCNAME", "loop")
    /\ LET f == Top
       IN  IF f.idx > Len(f.rrs)
           THEN Return(DNSResult(<<>>, FALSE, f.lastErr)) /\ UNCHANGED <<log, nact>>
           ELSE IF IsBadTarget(f.rrs[f.idx].target, f.qname)
           THEN Return(DNSResult(<<>>, FALSE, errBadCNAMETarget)) /\ UNCHANGED <<log, nact>>
           ELSE /\ Call([f EXCEPT !.pc = "wait"],
                        QueryFrame(nact + 1, f.rrs[f.idx].target, f.qtype, f.depth + 1))
                /\ nact' = nact + 1
                /\ log' = Append(log, Entry(nact + 1, f, f.depth + 1, f.rrs[f.idx].target, "cname"))
                /\ ret' = ret
    /\ UNCHANGED <<synced, handlers, top>>

\* resolveCNAME: the re-entered query has returned
CNAMEReturn ==
    /\ At("resolveCNAME", "wait")
    /\ Returned({"queryInternal"})
    /\ LET f == Top
           res == ret.val
       IN  IF res.Err # nil
           THEN /\ Goto([f EXCEPT !.lastErr = res.Err, !.idx = f.idx + 1, !.pc = "loop"])
                /\ ret' = NoRet
           ELSE Return(cnameResult(res))
    /\ UNCHANGED <<synced, handlers, top, log, nact>>

RECURSIVE WireEvents(_, _, _, _)
WireEvents(asked, f, name, i) ==
    IF i > Len(asked) THEN <<>>
    ELSE <<Ev("wire", f, name, asked[i])>> \o WireEvents(asked, f, name, i + 1)

\* how many LookupIP calls are on the stack
LookupNest == Cardinality({i \in 1..Len(stack) : stack[i].fn = "LookupIP"})

\* resolveNS: the delegated name is computed first
resolveNS ==
    /\ At("resolveNS", "start")
    /\ LET f == Top
           d == getDelegatedName(f.rrs, f.ds, f.qname)
       IN  /\ log' = Append(log, Ev("resolveNS", f, f.qname, ""))
           /\ IF d.err # nil
              THEN Return(DNSResult(<<>>, FALSE, d.err))
              ELSE Goto([f EXCEPT !.zone = d.zone, !.pc = "loop"]) /\ ret' = ret
    /\ UNCHANGED <<synced, handlers, top, nact>>

\* resolveNS: the frame after exchangeNS was tried with the addresses ips of
\* the NS record at idx (break on success, next NS record otherwise)
AfterExchange(f, ips) ==
    LET x == exchangeNS(ips, f.qname, f.qtype)
    IN  [f EXCEPT !.nsIPs = ips, !.msg = x.msg,
                  !.idx = IF x.err = nil THEN f.idx ELSE f.idx + 1,
                  !.pc = IF x.err = nil THEN "after" ELSE "loop"]

\* resolveNS: the next NS record; lookupNSAddr takes the glue or calls LookupIP
lookupNSAddr ==
    /\ At("resolveNS", "loop")
    /\ LET f == Top
           host == f.rrs[f.idx].target
           ips == GlueIPs(host, f.extra)
       IN  IF f.idx > Len(f.rrs)
           THEN Goto([f EXCEPT !.pc = "after"]) /\ UNCHANGED log
           ELSE IF Len(ips) # 0
           THEN /\ Goto(AfterExchange(f, ips))
                /\ log' = log \o WireEvents(exchangeNS(ips, f.qname, f.qtype).asked, f, f.qname, 1)
           ELSE /\ LookupNest < MaxLookupNest
                /\ Call([f EXCEPT !.pc = "wait-ip"], LookupFrame(f.id, host))
                /\ UNCHANGED log
    /\ ret' = ret
    /\ UNCHANGED <<synced, handlers, top, nact>>

\* the stub's LookupIP asks the installed query function, that is h.query,
\* for the host's addresses
LookupIP ==
    /\ At("LookupIP", "call")
    /\ LET f == Top
       IN  /\ Call([f EXCEPT !.pc = "wait"], QueryFrame(nact + 1, f.host, "A", 0))
           /\ log' = Append(log, Entry(nact + 1, f, 0, f.host, "lookup"))
    /\ nact' = nact + 1
    /\ ret' = ret
    /\ UNCHANGED <<synced, handlers, top>>

RECURSIVE AddrsOf(_)
AddrsOf(rrs) ==
    IF rrs = <<>> THEN <<>>
    ELSE (IF Head(rrs).rtype \in {"A", "AAAA"} THEN <<Head(rrs).data>> ELSE <<>>)
         \o AddrsOf(Tail(rrs))

\* LookupIP returns the addresses of the answer, or the query's error
LookupIPReturn ==
    /\ At("LookupIP", "wait")
    /\ Returned({"queryInternal"})
    /\ Return([ips |-> IF ret.val.Err = nil THEN AddrsOf(ret.val.Records) ELSE <<>>,
               err |-> ret.val.Err])
    /\ UNCHANGED <<synced, handlers, top, log, nact>>

\* resolveNS: lookupNSAddr has the addresses from LookupIP, or its error
NSAddrReturn ==
    /\ At("resolveNS", "wait-ip")
    /\ Returned({"LookupIP"})
    /\ LET f == Top
           r == ret.val
       IN  IF r.err # nil
           THEN /\ Goto([f EXCEPT !.nsIPs = <<>>, !.idx = f.idx + 1, !.pc = "loop"])
                /\ UNCHANGED log
           ELSE /\ Goto(AfterExchange(f, r.ips))
                /\ log' = log \o WireEvents(exchangeNS(r.ips, f.qname, f.qtype).asked, f, f.qname, 1)
    /\ ret' = NoRet
    /\ UNCHANGED <<synced, handlers, top, nact>>

\* an NS branch that takes an unsigned response for a secure one
verifyTrusting(signed, msg) ==
    IF signed THEN Verify(msg) ELSE [secure |-> TRUE, err |-> nil]

\* resolveNS: the response is validated only under a trusted key set
verifyIfSigned(signed, msg) ==
    IF signed THEN Verify(msg) ELSE [secure |-> FALSE, err |-> nil]

\* resolveNS after the loop: the keys, the validation, and the flatten of the
\* response one level deeper
validate ==
    /\ At("resolveNS", "after")
    /\ LET f == Top
           k == IF Len(f.ds) > 0 THEN queryDNSKeys(f.nsIPs, f.ds, f.zone)
                ELSE [keys |-> {}, err |-> nil, asked |-> <<>>]
           signed == Cardinality(k.keys) > 0
           v == verifyIfSigned(signed, f.msg)
           keyEvents == WireEvents(k.asked, f, f.zone, 1)
       IN  IF f.msg = NoMsg
           THEN Return(DNSResult(<<>>, FALSE, <<"failed to read message">>)) /\ UNCHANGED log
           ELSE IF k.err # nil
           THEN Return(DNSResult(<<>>, FALSE, k.err)) /\ log' = log \o keyEvents
           ELSE IF v.err # nil
           THEN /\ Return(DNSResult(<<>>, FALSE, v.err))
                /\ log' = log \o keyEvents \o <<Ev("verify", f, f.qname, "error")>>
           ELSE /\ log' = log \o keyEvents
                            \o (IF signed
                                THEN <<Ev("verify", f, f.qname,
                                          IF v.secure THEN "secure" ELSE "insecure")>>
                                ELSE <<>>)
                /\ ret' = ret
                /\ IF Len(f.msg.Answer) > 0
                   THEN Call([f EXCEPT !.pc = "wait", !.secure = v.secure],
                             FlattenFrame(f.id, f.msg.Answer, <<>>, v.secure,
                                          f.qname, f.qtype, f.depth + 1))
                   ELSE Call([f EXCEPT !.pc = "wait", !.secure = v.secure],
                             FlattenFrame(f.id, f.msg.Ns, f.msg.Extra, v.secure,
                                          f.qname, f.qtype, f.depth + 1))
    /\ UNCHANGED <<synced, handlers, top, nact>>

\* resolveNS returns what the deeper flatten returned
NSReturn ==
    /\ At("resolveNS", "wait")
    /\ Returned({"flatten"})
    /\ Return(ret.val)
    /\ UNCHANGED <<synced, handlers, top, log, nact>>

Next ==
    \/ SetSynced
    \/ \E tag \in Tags : RegisterHandler(tag)
    \/ \E q \in Queries : query(q[1], q[2])
    \/ SyncGate
    \/ StubQuery
    \/ AttemptHIP5
    \/ QueryReturn
    \/ flatten
    \/ FlattenReturn
    \/ resolveCNAME
    \/ CNAMEReturn
    \/ resolveNS
    \/ lookupNSAddr
    \/ LookupIP
    \/ LookupIPReturn
    \/ NSAddrReturn
    \/ validate
    \/ NSReturn

Spec == Init /\ [][Next]_vars

(***************************************************************************)
(* What the properties read off a state: the log of the running (or just   *)
(* finished) top-level query and the value just returned.                  *)
(***************************************************************************)
Pos == 1..Len(log)

\* the positions of the log entries op of activation id
EventsOf(op, id) == {i \in Pos : log[i].op = op /\ log[i].id = id}

\* what the sync predicate said at the entry of activation id
SyncSaid(id, what) == \E i \in EventsOf("sync", id) : log[i].arg = what

\* the canonical name activation id was asked for
AskedName(id) == log[CHOOSE i \in EventsOf("sync", id) : TRUE].name

\* a queryInternal activation has just returned
QueryReturned == ret.from = "queryInternal"

\* the top-level query has returned to its caller
Done == Idle /\ QueryReturned

NotReady(res) == ErrorsIs(res.Err, errNotSynced)

\* the stub's answer counts as SERVFAIL
IsServFail(res) == res.Err # nil /\ \E i \in 1..Len(res.Err) : res.Err[i] = ErrServFail[1]

(***************************************************************************)
(* C1 (as written): a queryInternal call returns the not-ready error       *)
(* exactly when the sync predicate was false at the entry of that call.    *)
(* Refuted: a call that passed its own gate returns the not-ready error    *)
(* of a CNAME re-entry whose gate was closed in the meantime.              *)
(***************************************************************************)
C1_NotReadyIffOwnGate ==
    QueryReturned => (NotReady(ret.val) <=> SyncSaid(ret.frame.id, "unsynced"))

(***************************************************************************)
(* C1 (amended): the sync predicate is evaluated at the entry of every     *)
(* queryInternal call.  A call at whose entry it is false returns the      *)
(* not-ready error with no records, not secure, and calls neither the      *)
(* stub, the root endpoint nor a handler.  A call returns the not-ready    *)
(* error only if the predicate was false at its own entry or at the entry  *)
(* of a re-entry made on its behalf.                                       *)
(***************************************************************************)
C1_SyncGate ==
    /\ \A id \in 1..nact : EventsOf("sync", id) # {} \/ At("queryInternal", "sync")
    /\ QueryReturned =>
         LET id == ret.frame.id
         IN  /\ SyncSaid(id, "unsynced") =>
                  /\ ret.val = DNSResult(<<>>, FALSE, errNotSynced)
                  /\ \A i \in Pos : log[i].id = id => log[i].op \in {"query", "sync"}
             /\ NotReady(ret.val) =>
                  \E i \in Pos : /\ log[i].op = "sync"
                                 /\ log[i].id >= id
                                 /\ log[i].arg = "unsynced"

\* a call that passed its own gate returns the not-ready error of a re-entry
C1_Witness ==
    /\ Done
    /\ SyncSaid(1, "synced")
    /\ ret.val = DNSResult(<<>>, FALSE, errNotSynced)
    /\ \E i \in Pos : log[i].op = "sync" /\ log[i].depth > 0 /\ log[i].arg = "unsynced"

(***************************************************************************)
(* C2: for a name whose last label is not eth the stub is asked before the *)
(* root endpoint and before any handler; if the stub answers with success  *)
(* or with an error other than SERVFAIL, the call returns the stub's       *)
(* result as it is (records, secure flag and error) and neither the root   *)
(* endpoint nor a handler is called.                                       *)
(***************************************************************************)
C2_StubFirst ==
    /\ \A i \in Pos :
         (log[i].op \in {"root", "handler"} /\ LastNLabels(AskedName(log[i].id), 1) # <<"eth">>)
            => \E j \in 1..(i - 1) : log[j].op = "stub" /\ log[j].id = log[i].id
    /\ QueryReturned =>
         LET id == ret.frame.id
             answer == stubQuery(AskedName(id), ret.frame.qtype)
         IN  (EventsOf("stub", id) # {} /\ ~IsServFail(answer)) =>
                /\ ret.val = answer
                /\ EventsOf("root", id) = {}
                /\ EventsOf("handler", id) = {}

\* the stub's error that is not SERVFAIL came back from a CNAME re-entry
C2_Witness ==
    /\ QueryReturned
    /\ ret.frame.depth > 0
    /\ EventsOf("stub", ret.frame.id) # {}
    /\ ret.val.Err # nil
    /\ ~IsServFail(ret.val)
    /\ ret.val = stubQuery(AskedName(ret.frame.id), ret.frame.qtype)

(***************************************************************************)
(* More of what the properties read off a state.                           *)
(***************************************************************************)
\* the sync predicate held at every entry of the query so far
AllSynced == \A i \in Pos : log[i].op = "sync" => log[i].arg = "synced"

Frames == 1..Len(stack)

MaxDepthError == Wrap("hip-5 resolution failed", errMaxDepthReached)

\* the position of the log entry flatten made when it was entered as frame f
FlattenEntry(f) ==
    CHOOSE i \in Pos : log[i].op = "flatten" /\ log[i].id = f.id /\ log[i].depth = f.depth

\* the CNAME records of rrs, in list order
CNAMEsOf(rrs) == LET IsCNAME(r) == r.rtype = "CNAME" IN SelectSeq(rrs, IsCNAME)

\* the records of rrs of type qtype, in list order
OfType(rrs, qtype) == LET Wanted(r) == r.rtype = qtype IN SelectSeq(rrs, Wanted)

\* flatten has just returned from the record set a handler gave for its qname
HandlerSetFlattened ==
    /\ ret.from = "flatten"
    /\ \E i \in EventsOf("sync", ret.frame.id) : log[i].depth = ret.frame.depth

(***************************************************************************)
(* C3 (as written): no queryInternal re-entry, no handler call and no      *)
(* flatten body runs at a depth greater than 10.  Refuted: the CNAME       *)
(* branch at depth 10 re-enters queryInternal at depth 11, which asks the  *)
(* stub, the root endpoint and the handlers before flatten refuses.        *)
(***************************************************************************)
C3_NothingBeyondMaxDepth ==
    /\ \A i \in Pos : log[i].op \in {"query", "handler"} => log[i].depth <= MaxDepth
    /\ \A k \in Frames :
         stack[k].fn \in {"resolveCNAME", "resolveNS"} => stack[k].depth <= MaxDepth

(***************************************************************************)
(* C3 (amended): flatten entered at a depth greater than 10 returns the    *)
(* max-depth error at once, so its body (the CNAME and the NS branch)      *)
(* never runs beyond depth 10 and nothing at all runs beyond depth 11;     *)
(* queryInternal and the handlers it dispatches to do run at depth 11.     *)
(***************************************************************************)
C3_DepthBound ==
    /\ \A i \in Pos : log[i].depth <= MaxDepth + 1
    /\ \A k \in Frames :
         (stack[k].fn # "LookupIP" /\ stack[k].depth > MaxDepth) =>
            /\ stack[k].depth = MaxDepth + 1
            /\ \/ stack[k].fn = "queryInternal"
               \/ stack[k].fn = "flatten" /\ stack[k].pc = "enter"
    /\ (ret.from = "flatten" /\ ret.frame.depth > MaxDepth) =>
            /\ ret.val = DNSResult(<<>>, FALSE, MaxDepthError)
            /\ FlattenEntry(ret.frame) = Len(log)

\* a handler was called at depth 11 and flatten then refused to go on
C3_Witness ==
    /\ ret.from = "flatten"
    /\ ret.frame.depth = MaxDepth + 1
    /\ \E i \in EventsOf("handler", ret.frame.id) : log[i].depth = MaxDepth + 1
    /\ ret.val.Err = MaxDepthError

(***************************************************************************)
(* C4: the recursion of a single query is bounded by the depth limit, the  *)
(* host-address lookups of the NS branch included: CNAME following and     *)
(* delegation alone nest at most 12 queryInternal calls (depths 0 to 11).  *)
(* Refuted by the code: a lookup of an NS host restarts at depth 0, and a  *)
(* delegation whose host lies in the delegated zone nests without end.     *)
(***************************************************************************)
C4_BoundedNesting ==
    Cardinality({k \in Frames : stack[k].fn = "queryInternal"}) <= MaxDepth + 2

(***************************************************************************)
(* C5 (as written): a handler CNAME chain of more than 10 hops fails with  *)
(* the max-depth error; one of 10 or fewer hops that ends at a target the  *)
(* stub resolves returns the target's records of the queried type.         *)
(* Refuted: a chain of 11 hops to such a target succeeds.                  *)
(***************************************************************************)
C5_ChainOfTenHops ==
    (Done /\ AllSynced /\ <<"_example">> \in handlers) =>
       \A k \in 1..MaxChain : \A x \in {"s", "c"} :
          top.name = ChainName(k, x) =>
             LET t == stubQuery(ChainTail(x), top.qtype)
             IN  IF k > MaxDepth
                 THEN ErrorsIs(ret.val.Err, errMaxDepthReached)
                 ELSE ret.val = DNSResult(OfType(t.Records, top.qtype), t.Secure, nil)

(***************************************************************************)
(* C5 (amended): a handler CNAME chain ending at a target the stub         *)
(* resolves fails with the max-depth error when it has more than 11 hops   *)
(* and returns the target's records of the queried type, with the stub's   *)
(* secure flag, when it has 11 or fewer; a chain ending at a name that a   *)
(* handler resolves fails when it has more than 10 hops and returns the    *)
(* handler's records of the queried type when it has 10 or fewer.          *)
(***************************************************************************)
C5_ChainDepth ==
    (Done /\ AllSynced /\ <<"_example">> \in handlers) =>
       \A k \in 1..MaxChain :
          /\ \A x \in {"s", "c"} :
               top.name = ChainName(k, x) =>
                  LET t == stubQuery(ChainTail(x), top.qtype)
                  IN  IF k > MaxDepth + 1
                      THEN ret.val = DNSResult(<<>>, FALSE, MaxDepthError)
                      ELSE ret.val = DNSResult(OfType(t.Records, top.qtype), t.Secure, nil)
          /\ top.name = ChainName(k, "leaf") =>
                  LET t == exampleData(ChainTail("leaf"))
                  IN  IF k > MaxDepth
                      THEN ret.val = DNSResult(<<>>, FALSE, MaxDepthError)
                      ELSE ret.val.Err = nil /\ ret.val.Records = OfType(t.rrs, top.qtype)

\* the chain of 11 hops returned the target's address record
C5_Witness ==
    /\ Done
    /\ top.name = ChainName(MaxDepth + 1, "s")
    /\ <<"_example">> \in handlers
    /\ ret.val.Err = nil
    /\ Len(ret.val.Records) = 1
    /\ Cardinality({i \in Pos : log[i].op = "query"}) = MaxDepth + 1

(***************************************************************************)
(* C6 (as written): if the records a handler returns for a name hold a     *)
(* CNAME whose canonical target is that name, flatten returns the          *)
(* bad-target error and nothing is asked on behalf of the record set.      *)
(* Refuted: CNAMEs listed before the self-pointing one are followed first. *)
(***************************************************************************)
C6_SelfTargetAnywhere ==
    (HandlerSetFlattened /\
     \E j \in 1..Len(ret.frame.rrs) :
        /\ ret.frame.rrs[j].rtype = "CNAME"
        /\ CanonicalName(ret.frame.rrs[j].target) = ret.frame.qname) =>
       /\ ret.val.Err = errBadCNAMETarget
       /\ FlattenEntry(ret.frame) = Len(log)

(***************************************************************************)
(* C6 (amended): if the first CNAME of the records a handler returns for   *)
(* a name has that name as its canonical target and flatten runs at a      *)
(* depth of at most 10, flatten returns the bad-target error and asks      *)
(* neither the stub, the root endpoint, a handler nor a name server; the   *)
(* error reaches unchanged the caller of a query whose only CNAME points   *)
(* at such a name.                                                         *)
(***************************************************************************)
C6_SelfTarget ==
    /\ (HandlerSetFlattened /\ ret.frame.depth <= MaxDepth /\
        CNAMEsOf(ret.frame.rrs) # <<>> /\
        CanonicalName(CNAMEsOf(ret.frame.rrs)[1].target) = ret.frame.qname) =>
          /\ ret.val = DNSResult(<<>>, FALSE, errBadCNAMETarget)
          /\ FlattenEntry(ret.frame) = Len(log)
    /\ (Done /\ AllSynced /\ <<"_example">> \in handlers /\
        top.name \in {Forever("loop"), <<"LOOP", "FOREVER">>, Forever("indirect"),
                      ChainName(MaxDepth, "loop")}) =>
          ret.val = DNSResult(<<>>, FALSE, errBadCNAMETarget)

\* the error of a self-pointing CNAME came back through a CNAME re-entry
C6_Witness ==
    /\ Done
    /\ top.name = Forever("indirect")
    /\ ret.val.Err = errBadCNAMETarget
    /\ \E i \in Pos : log[i].op = "flatten" /\ log[i].depth = 1

(***************************************************************************)
(* What the properties read off the log about one activation.              *)
(***************************************************************************)
Range(seq) == {seq[j] : j \in 1..Len(seq)}

\* the re-entries the CNAME branch running as frame f made, in order
ReentriesOf(f) ==
    LET Mine(e) == /\ e.op = "query"
                   /\ e.arg = "cname"
                   /\ e.by = f.id
                   /\ e.depth = f.depth + 1
    IN  SelectSeq(log, Mine)

\* the handler calls of activation id, in order
HandlerCalls(id) ==
    LET Mine(e) == e.op = "handler" /\ e.id = id
    IN  SelectSeq(log, Mine)

\* the stub answers the name itself: it is asked, and not with SERVFAIL
StubAnswers(name, qtype) ==
    /\ LastNLabels(name, 1) # <<"eth">>
    /\ ~IsServFail(stubQuery(CanonicalName(name), qtype))

(***************************************************************************)
(* C7: the CNAME branch re-enters the resolver for the CNAMEs in list      *)
(* order and stops at the first target that resolves; its result then has  *)
(* exactly the records and the secure flag of that target's resolution     *)
(* (checked against the stub for the targets the stub answers); when all   *)
(* targets fail it returns the error of the last CNAME tried.              *)
(***************************************************************************)
C7_CNAMEOrder ==
    ret.from = "resolveCNAME" =>
       LET f == ret.frame
           tried == ReentriesOf(f)
           n == Len(tried)
           answer(j) == stubQuery(CanonicalName(f.rrs[j].target), f.qtype)
       IN  /\ n <= Len(f.rrs)
           /\ \A j \in 1..n : tried[j].name = f.rrs[j].target
           /\ ret.val.Err = nil => n > 0
           /\ ret.val.Err # nil =>
                \/ n = Len(f.rrs)
                \/ ret.val.Err = errBadCNAMETarget /\
                   CanonicalName(f.rrs[n + 1].target) = f.qname
           /\ AllSynced =>
                /\ \A j \in 1..(n - 1) :
                      StubAnswers(f.rrs[j].target, f.qtype) => answer(j).Err # nil
                /\ (n > 0 /\ StubAnswers(f.rrs[n].target, f.qtype)) =>
                      IF answer(n).Err = nil
                      THEN ret.val = DNSResult(answer(n).Records, answer(n).Secure, nil)
                      ELSE n = Len(f.rrs) => ret.val = DNSResult(<<>>, FALSE, answer(n).Err)

\* the first target failed and the second, a secure one, resolved
C7_Witness ==
    /\ ret.from = "resolveCNAME"
    /\ Len(ret.frame.rrs) = 2
    /\ Len(ReentriesOf(ret.frame)) = 2
    /\ ret.val.Err = nil
    /\ ret.val.Secure
    /\ ret.val.Records = stubQuery(<<"s", "test", Root>>, "A").Records

(***************************************************************************)
(* Where a returned record came from.                                      *)
(***************************************************************************)
\* the stub answers for the record's owner with Secure and with the record
FromSecureStub(r) ==
    \E qtype \in QTypes :
       LET a == stubQuery(r.owner, qtype)
       IN  a.Err = nil /\ a.Secure /\ r \in Range(a.Records)

\* a name server supplied the record in a response that Verify, called by
\* activation id or on its behalf, found secure
FromVerifiedWire(r, id) ==
    \E i \in Pos :
       /\ log[i].op = "verify"
       /\ log[i].arg = "secure"
       /\ log[i].id >= id
       /\ \E ip \in {"ip1", "ip2"} :
             LET m == exchange(ip, log[i].name, r.rtype)
             IN  m.err = nil /\ Verify(m).secure /\ r \in Range(m.Answer)

\* a handler called by activation id or on its behalf supplied the record
FromHandler(r, id) ==
    \E i \in Pos :
       /\ log[i].op = "handler"
       /\ log[i].id >= id
       /\ LET ns == NS(NoName, log[i].name)
              h == CallHandler(LastNLabels(log[i].name, 1), AskedName(log[i].id), r.rtype, ns)
          IN  h.err = nil /\ r \in Range(h.rrs)

(***************************************************************************)
(* C8 (as written): a result with no error and Secure=true holds only      *)
(* records the stub reported secure or records of a wire response that     *)
(* Verify found secure; records a handler returned are never secure.       *)
(* Refuted: records a handler returned come back with Secure=true.         *)
(***************************************************************************)
C8_SecureMeansVerified ==
    (QueryReturned /\ ret.val.Err = nil /\ ret.val.Secure) =>
       \A r \in Range(ret.val.Records) :
          FromSecureStub(r) \/ FromVerifiedWire(r, ret.frame.id)

(***************************************************************************)
(* C8 (amended): a result with no error and Secure=true holds only records *)
(* the stub reported secure, records of a wire response that Verify found  *)
(* secure under a trusted key set, or records a registered handler         *)
(* returned; a result that holds a record a handler returned always has    *)
(* Secure=true, although the validator never saw it.                       *)
(***************************************************************************)
C8_SecureProvenance ==
    (QueryReturned /\ ret.val.Err = nil) =>
       /\ ret.val.Secure =>
            \A r \in Range(ret.val.Records) :
               \/ FromSecureStub(r)
               \/ FromVerifiedWire(r, ret.frame.id)
               \/ FromHandler(r, ret.frame.id)
       /\ (\E r \in Range(ret.val.Records) : FromHandler(r, ret.frame.id)) => ret.val.Secure

\* a handler's address record came back as secure with no validation at all
C8_Witness ==
    /\ Done
    /\ ret.val.Err = nil
    /\ ret.val.Secure
    /\ ret.val.Records # <<>>
    /\ FromHandler(ret.val.Records[1], 1)
    /\ ~FromSecureStub(ret.val.Records[1])
    /\ \A i \in Pos : log[i].op # "verify"

(***************************************************************************)
(* What dispatch is expected to do for activation id.                      *)
(***************************************************************************)
\* the NS records offered for the TLD of activation id whose last label is
\* a registered handler, in NS order
SelectedNS(id) ==
    LET tld == LastNLabels(AskedName(id), 1)
        offered == IF tld = <<"eth">> THEN ethNS ELSE exchangeRoot(Fqdn(tld)).Ns
        Selected(r) == r.rtype = "NS" /\ LastNLabels(r.target, 1) \in handlers
    IN  SelectSeq(offered, Selected)

\* what the handler selected by the NS record rr answers to activation id
HandlerAnswer(id, rr, qtype) ==
    CallHandler(LastNLabels(rr.target, 1), AskedName(id), qtype, rr)

\* activation id got as far as looking up the extensions, and the lookup
\* succeeded
Dispatched(id) ==
    LET tld == LastNLabels(AskedName(id), 1)
        r == exchangeRoot(Fqdn(tld))
    IN  /\ SyncSaid(id, "synced")
        /\ tld # <<>>
        /\ \/ tld = <<"eth">>
           \/ /\ EventsOf("root", id) # {}
              /\ r.err = nil /\ r.Rcode = RcodeSuccess /\ ~r.Truncated

(***************************************************************************)
(* C9: dispatch calls the handlers of the selected NS records one at a     *)
(* time in NS order and stops at the first success, whose records are      *)
(* what is flattened; when every handler fails the call's error wraps the  *)
(* error of the last handler called; a handler that failed does not keep   *)
(* the handlers of later NS records from being called.                     *)
(***************************************************************************)
C9_Dispatch ==
    /\ (QueryReturned /\ Dispatched(ret.frame.id)) =>
          LET id == ret.frame.id
              sel == SelectedNS(id)
              calls == HandlerCalls(id)
              n == Len(calls)
              err(j) == HandlerAnswer(id, sel[j], ret.frame.qtype).err
          IN  /\ n <= Len(sel)
              /\ \A j \in 1..n : calls[j].name = sel[j].target
              /\ \A j \in 1..(n - 1) : err(j) # nil
              /\ n < Len(sel) => (n > 0 /\ err(n) = nil)
              /\ (n > 0 /\ err(n) # nil) =>
                    /\ ret.val = DNSResult(<<>>, FALSE, Wrap("hip-5 resolution failed", err(n)))
                    /\ ErrorsIs(ret.val.Err, err(n))
    /\ (At("flatten", "enter") /\ HandlerCalls(Top.id) # <<>> /\
        \E i \in EventsOf("sync", Top.id) : log[i].depth = Top.depth) =>
          LET calls == HandlerCalls(Top.id)
              last == NS(NoName, calls[Len(calls)].name)
          IN  Top.rrs = HandlerAnswer(Top.id, last, Top.qtype).rrs

\* the first handler failed, the second one answered, and the query succeeded
C9_Witness ==
    /\ QueryReturned
    /\ Len(HandlerCalls(ret.frame.id)) = 2
    /\ HandlerCalls(ret.frame.id)[1].arg # HandlerCalls(ret.frame.id)[2].arg
    /\ ret.val.Err = nil
    /\ ret.val.Records # <<>>

(***************************************************************************)
(* C10: when the extension lookup succeeds but no handler is called, the   *)
(* call returns the stub's result if the stub was asked and the            *)
(* not-supported error if it was not (the reserved TLD); it never returns  *)
(* success with an empty record list.  Refuted by the code: for a name     *)
(* under eth with no handler registered for it the call returns success    *)
(* with no records and Secure=true.                                        *)
(***************************************************************************)
C10_NoHandlerFallback ==
    (QueryReturned /\ Dispatched(ret.frame.id) /\ HandlerCalls(ret.frame.id) = <<>>) =>
       LET id == ret.frame.id
       IN  /\ IF EventsOf("stub", id) # {}
              THEN ret.val = stubQuery(AskedName(id), ret.frame.qtype)
              ELSE ret.val.Err = errHIP5NotSupported
           /\ ~(ret.val.Err = nil /\ ret.val.Records = <<>>)

(***************************************************************************)
(* C11: for a name whose last label is eth after lowercasing, neither the  *)
(* stub nor the root endpoint is asked; the extension lookup yields the    *)
(* one hardcoded NS record (owner eth., TTL 86400, host ending in _eth)    *)
(* whatever handlers are registered, and the handler registered for _eth   *)
(* is called once, with exactly that record.                               *)
(***************************************************************************)
C11_EthShortcut ==
    /\ Len(ethNS) = 1
    /\ ethNS[1].owner = <<"eth", Root>> /\ ethNS[1].rtype = "NS" /\ ethNS[1].data = "86400"
    /\ LastNLabels(ethNS[1].target, 1) = <<"_eth">>
    /\ lookupExtensions(<<"eth">>, handlers) = [ext |-> ethNS, err |-> nil, asked |-> FALSE]
    /\ \A id \in 1..nact :
         (EventsOf("sync", id) # {} /\ LastNLabels(AskedName(id), 1) = <<"eth">>) =>
            /\ EventsOf("stub", id) = {}
            /\ EventsOf("root", id) = {}
            /\ \A i \in EventsOf("handler", id) :
                  log[i].name = ethNS[1].target /\ log[i].arg = "_eth"
            /\ (QueryReturned /\ ret.frame.id = id /\ SyncSaid(id, "synced")) =>
                  /\ Len(HandlerCalls(id)) = (IF <<"_eth">> \in handlers THEN 1 ELSE 0)
                  /\ runHandlers(lookupExtensions(<<"eth">>, handlers).ext, AskedName(id),
                                 ret.frame.qtype, handlers).called
                        = (IF <<"_eth">> \in handlers THEN ethNS ELSE <<>>)

\* a name under ETH was answered by the handler of _eth alone
C11_Witness ==
    /\ Done
    /\ top.name = <<"nobody", "ETH">>
    /\ Len(HandlerCalls(1)) = 1
    /\ log[Len(log)].op = "handler"
    /\ Len(log) = 2

\* the depth at which activation id was running when it made the log entry
\* at position i: that of its last flatten or resolveNS step before i
StepDepth(id, i) ==
    LET steps == {j \in 1..(i - 1) : log[j].id = id /\ log[j].op \in {"flatten", "resolveNS"}}
    IN  IF steps = {} THEN 0
        ELSE log[CHOOSE j \in steps : \A k \in steps : k <= j].depth

(***************************************************************************)
(* C17: within one top-level query every re-entry into queryInternal (for  *)
(* a CNAME target or for the address of an NS host without glue) runs at   *)
(* a depth strictly greater than that of the step that made it; none       *)
(* restarts at depth 0.  Refuted by the code: the address lookup of an NS  *)
(* host enters queryInternal at depth 0 whatever the depth of the NS       *)
(* branch that asks for it.                                                *)
(***************************************************************************)
C17_DepthMonotonic ==
    \A i \in Pos :
       log[i].op = "query" =>
          /\ log[i].depth > 0
          /\ log[i].depth > StepDepth(log[i].by, i)

\* the positions of the exchanges the NS branch running as frame f made for
\* its question (not for the DNSKEY set)
ExchangesOf(f) ==
    {i \in Pos : /\ log[i].op = "wire"
                 /\ log[i].id = f.id
                 /\ log[i].depth = f.depth
                 /\ log[i].name = f.qname}

\* the exchange logged at position i gave a usable response for qtype
GoodExchange(i, qtype) ==
    LET r == exchange(log[i].arg, log[i].name, qtype)
    IN  r.err = nil /\ ~r.Truncated

\* the NS branch running as frame f went on to flatten a response
FlattenedResponse(f) ==
    \E i \in Pos : log[i].op = "flatten" /\ log[i].id = f.id /\ log[i].depth = f.depth + 1

(***************************************************************************)
(* C18: the response resolveNS validates and flattens is never truncated   *)
(* and always comes from an exchange that reported no error; when every    *)
(* exchange failed or was truncated resolveNS returns an error and         *)
(* flattens nothing.  Refuted by the code: the truncated response of the   *)
(* last address tried is kept and flattened.                               *)
(***************************************************************************)
C18_TruncationIsFailure ==
    /\ \A k \in Frames :
         (stack[k].fn = "resolveNS" /\ stack[k].pc = "wait") =>
            ~stack[k].msg.Truncated /\ stack[k].msg.err = nil
    /\ (ret.from = "resolveNS" /\
        \A i \in ExchangesOf(ret.frame) : ~GoodExchange(i, ret.frame.qtype)) =>
            ret.val.Err # nil /\ ~FlattenedResponse(ret.frame)

\* the addresses lookupNSAddr has for the NS record rr of frame f: the glue,
\* or else what the stub knows of the host
HostAddrs(f, rr) ==
    LET glue == {f.extra[j].data : j \in {j \in 1..Len(f.extra) :
                     /\ f.extra[j].rtype \in {"A", "AAAA"}
                     /\ ToLowerName(Labels(f.extra[j].owner)) = ToLowerName(Labels(rr.target))}}
        known == stubQuery(CanonicalName(rr.target), "A")
    IN  IF glue # {} THEN glue
        ELSE IF known.Err = nil
        THEN {known.Records[j].data : j \in {j \in 1..Len(known.Records) :
                                               known.Records[j].rtype = "A"}}
        ELSE {}

(***************************************************************************)
(* C19: if some NS record of the set has an address whose exchange gives   *)
(* a response without error and without truncation, resolveNS obtains a    *)
(* response and does not fail with "failed to read message", however the   *)
(* NS records before it behaved.  Refuted by the code: an earlier NS       *)
(* record whose host has an empty address list ends the loop with no       *)
(* response.                                                               *)
(***************************************************************************)
C19_FirstUsableNS ==
    (ret.from = "resolveNS" /\ AllSynced /\ ret.frame.zone # NoName /\
     \E j \in 1..Len(ret.frame.rrs) : \E ip \in HostAddrs(ret.frame, ret.frame.rrs[j]) :
        LET r == exchange(ip, ret.frame.qname, ret.frame.qtype)
        IN  r.err = nil /\ ~r.Truncated) =>
       ret.val.Err # <<"failed to read message">>

(***************************************************************************)
(* What getDelegatedName is expected to accept.                            *)
(***************************************************************************)
LowerLabels(name) == ToLowerName(Labels(name))

\* the records of a delegation agree on one owner that qname lies under
GoodDelegation(rrs, ds, qname) ==
    LET zone == LowerLabels(rrs[1].owner)
        q == LowerLabels(qname)
    IN  /\ \A j \in 1..Len(rrs) : LowerLabels(rrs[j].owner) = zone
        /\ \A j \in 1..Len(ds) : LowerLabels(ds[j].owner) = zone
        /\ Len(zone) <= Len(q)
        /\ SubSeq(q, Len(q) - Len(zone) + 1, Len(q)) = zone

(***************************************************************************)
(* C20: when the NS records do not share one owner (compared without       *)
(* regard to case), or a DS record has another owner, or qname does not    *)
(* lie under that owner, resolveNS returns an error before it looks up     *)
(* any NS address or asks any name server; otherwise the shared owner, in  *)
(* canonical form, is the zone the DNSKEY set is fetched for.              *)
(***************************************************************************)
C20_DelegatedName ==
    /\ (ret.from = "resolveNS" /\
        ~GoodDelegation(ret.frame.rrs, ret.frame.ds, ret.frame.qname)) =>
          /\ ret.val.Err # nil
          /\ ret.val.Records = <<>>
          /\ log[Len(log)].op = "resolveNS" /\ log[Len(log)].id = ret.frame.id
          /\ log[Len(log)].depth = ret.frame.depth
    /\ \A k \in Frames :
         (stack[k].fn = "resolveNS" /\ stack[k].pc # "start") =>
            /\ GoodDelegation(stack[k].rrs, stack[k].ds, stack[k].qname)
            /\ stack[k].zone = LowerLabels(stack[k].rrs[1].owner) \o <<Root>>
    /\ \A i \in Pos :
         (log[i].op = "verify") =>
            \E j \in 1..(i - 1) :
               /\ log[j].op = "wire" /\ log[j].id = log[i].id /\ log[j].depth = log[i].depth
               /\ LowerLabels(log[j].name) # LowerLabels(log[i].name)
               /\ LET q == LowerLabels(log[i].name)
                      z == LowerLabels(log[j].name)
                  IN  Len(z) <= Len(q) /\ SubSeq(q, Len(q) - Len(z) + 1, Len(q)) = z

\* NS records with two owners made resolveNS fail before it asked anything
C20_Witness ==
    /\ ret.from = "resolveNS"
    /\ Len(ret.frame.rrs) = 2
    /\ LowerLabels(ret.frame.rrs[1].owner) # LowerLabels(ret.frame.rrs[2].owner)
    /\ ret.val.Err # nil
    /\ log[Len(log)].op = "resolveNS"

(***************************************************************************)
(* Package dnssec: filterDS.                                               *)
(*                                                                         *)
(* A DS record carries its key tag, algorithm, digest type and digest in   *)
(* the data field.  The pure functions of the package are run by small     *)
(* specifications of their own: top holds the arguments, an action applies *)
(* the function, log collects the results in the order of the calls and    *)
(* ret is the last one.                                                    *)
(***************************************************************************)
\* dns.RSASHA256 ... dns.ED25519, dns.SHA256, dns.SHA384
RSASHA256 == 8
RSASHA512 == 10
ECDSAP256SHA256 == 13
ECDSAP384SHA384 == 14
ED25519 == 15
SHA256 == 2
SHA384 == 4

supportedAlgorithms == {RSASHA256, RSASHA512, ECDSAP256SHA256, ECDSAP384SHA384, ED25519}

supportedDigests == {SHA256, SHA384}

isAlgorithmSupported(algo) == algo \in supportedAlgorithms

isDigestSupported(digest) == digest \in supportedDigests

ErrBadDS == <<"DS record doesn't match zone name">>

\* dns.IsFqdn
IsFqdn(n) == Len(n) > 0 /\ n[Len(n)] = Root

\* a DS record with its fields
DSRecord(owner, keyTag, algorithm, digestType, digest) ==
    DS(owner, [KeyTag |-> keyTag, Algorithm |-> algorithm,
               DigestType |-> digestType, Digest |-> digest])

\* dsKey{keyTag, algorithm}
dsKey(ds) == <<ds.data.KeyTag, ds.data.Algorithm>>

\* a filter that lets the later of two DS records of a key win
keepsFirstNever(ds2, ds) == FALSE

\* filterDS: the DS already kept for the key is at least as strong
keepsFirst(ds2, ds) == ds2.data.DigestType >= ds.data.DigestType

\* filterDS: the loop over dsSet from index i on; supported is the map so
\* far, as a function from the keys it holds
RECURSIVE filterDSFrom(_, _, _, _)
filterDSFrom(zone, dsSet, i, supported) ==
    IF i > Len(dsSet) THEN [supported |-> supported, err |-> nil]
    ELSE LET rr == dsSet[i]
             key == dsKey(rr)
         IN  IF ~EqualFold(zone, rr.owner)
                 THEN [supported |-> supported, err |-> ErrBadDS]
             ELSE IF rr.rtype # "DS"
                 THEN filterDSFrom(zone, dsSet, i + 1, supported)
             ELSE IF ~isAlgorithmSupported(rr.data.Algorithm)
                     \/ ~isDigestSupported(rr.data.DigestType)
                 THEN filterDSFrom(zone, dsSet, i + 1, supported)
             ELSE IF key \in DOMAIN supported /\ keepsFirst(supported[key], rr)
                 THEN filterDSFrom(zone, dsSet, i + 1, supported)
             ELSE filterDSFrom(zone, dsSet, i + 1,
                     [k \in DOMAIN supported \cup {key} |->
                         IF k = key THEN rr ELSE supported[k]])

\* filterDS: the values of the map (a set: the order of the returned slice is
\* the iteration order of a Go map), or an error
filterDS(zone, dsSet) ==
    IF ~IsFqdn(zone) THEN [values |-> {}, err |-> <<"zone must be fqdn">>]
    ELSE LET r == filterDSFrom(zone, dsSet, 1, <<>>)
         IN  IF r.err # nil THEN [values |-> {}, err |-> r.err]
             ELSE [values |-> {r.supported[k] : k \in DOMAIN r.supported},
                   err |-> nil]

\* the slices that range over a Go map may produce
Orders(S) ==
    {s \in [1..Cardinality(S) -> S] : \A x \in S : \E i \in DOMAIN s : s[i] = x}

\* longest DS set tried
MaxDSSet == 3

DSZone == <<"z", Root>>

\* the records the DS sets are made of
DSPool ==
    {DSRecord(DSZone, 1, RSASHA256, SHA256, "a"),
     DSRecord(DSZone, 1, RSASHA256, SHA384, "b"),
     DSRecord(DSZone, 1, RSASHA256, SHA256, "c"),
     DSRecord(DSZone, 1, ECDSAP256SHA256, SHA256, "a"),
     DSRecord(DSZone, 1, RSASHA256, 3, "g"),
     DSRecord(DSZone, 2, RSASHA256, 1, "a"),
     DSRecord(DSZone, 2, 5, SHA256, "a"),
     DSRecord(<<"Z", Root>>, 2, RSASHA256, SHA384, "b"),
     DSRecord(<<"o", Root>>, 1, RSASHA256, SHA384, "b"),
     RR(DSZone, "RRSIG", NoName, "sig")}

SeqsUpTo(S, n) == UNION {[1..k -> S] : k \in 0..n}

InitDS ==
    /\ synced = TRUE
    /\ handlers = {}
    /\ stack = <<>>
    /\ ret = NoRet
    /\ top \in [fn : {"filterDS"}, zone : {DSZone, <<"z">>},
                dsSet : SeqsUpTo(DSPool, MaxDSSet)]
    /\ log = <<>>
    /\ nact = 0

\* filterDS(zone, dsSet)
FilterDSCall ==
    /\ log = <<>>
    /\ LET r == filterDS(top.zone, top.dsSet)
       IN  \E values \in Orders(r.values) :
              /\ ret' = [from |-> "filterDS", values |-> values, err |-> r.err]
              /\ log' = <<ret'>>
    /\ UNCHANGED <<synced, handlers, stack, top, nact>>

\* filterDS(zone, values) on the slice the first call returned
FilterDSAgain ==
    /\ Len(log) = 1
    /\ LET r == filterDS(top.zone, log[1].values)
       IN  \E values \in Orders(r.values) :
              /\ ret' = [from |-> "filterDS", values |-> values, err |-> r.err]
              /\ log' = Append(log, ret')
    /\ UNCHANGED <<synced, handlers, stack, top, nact>>

NextDS ==
    \/ FilterDSCall
    \/ FilterDSAgain

SpecDS == InitDS /\ [][NextDS]_vars

\* the supported DS records of dsSet that have the key of ds
SupportedOfKey(dsSet, ds) ==
    {r \in Range(dsSet) : /\ r.rtype = "DS"
                          /\ isAlgorithmSupported(r.data.Algorithm)
                          /\ isDigestSupported(r.data.DigestType)
                          /\ dsKey(r) = dsKey(ds)}

\* values holds exactly one DS per supported key of dsSet, of the largest
\* supported digest type, and nothing else
StrongestPerKey(dsSet, values) ==
    /\ \A d \in Range(dsSet) :
          d.rtype = "DS" /\ SupportedOfKey(dsSet, d) # {} =>
              /\ Cardinality({i \in DOMAIN values : dsKey(values[i]) = dsKey(d)}) = 1
              /\ \A i \in DOMAIN values :
                    dsKey(values[i]) = dsKey(d) =>
                        /\ values[i] \in SupportedOfKey(dsSet, d)
                        /\ \A r \in SupportedOfKey(dsSet, d) :
                              r.data.DigestType <= values[i].data.DigestType
    /\ \A i \in DOMAIN values :
          /\ values[i] \in Range(dsSet)
          /\ values[i].rtype = "DS"
          /\ isAlgorithmSupported(values[i].data.Algorithm)
          /\ isDigestSupported(values[i].data.DigestType)

\* C14 as stated: filterDS is idempotent on DS sets, and for any zone and DS
\* set it returns, for every (key tag, algorithm) of the set with a supported
\* algorithm and digest, exactly one DS, the one of the largest supported
\* digest type, and no record of an unsupported algorithm or digest.
C14_StrongestOfAnySet ==
    /\ Len(log) >= 1 => StrongestPerKey(top.dsSet, log[1].values)
    /\ Len(log) = 2 => Range(log[2].values) = Range(log[1].values)

\* C14: filterDS is idempotent on DS sets; when the zone is fully qualified
\* and every record of the set is owned by the zone (in any case), it returns
\* for every (key tag, algorithm) of the set with a supported algorithm and
\* digest exactly one DS, the one of the largest supported digest type, and no
\* record of an unsupported algorithm or digest; otherwise it returns an error
\* and no DS at all.
C14_FilterDS ==
    /\ Len(log) >= 1 =>
          LET accepted == /\ IsFqdn(top.zone)
                          /\ \A r \in Range(top.dsSet) : EqualFold(top.zone, r.owner)
          IN  /\ accepted <=> log[1].err = nil
              /\ accepted => StrongestPerKey(top.dsSet, log[1].values)
              /\ ~accepted => log[1].values = <<>>
    /\ Len(log) = 2 =>
          /\ Range(log[2].values) = Range(log[1].values)
          /\ IsFqdn(top.zone) => log[2].err = nil

\* a set with a SHA-384 DS, a later SHA-256 DS of the same key and a DS of an
\* unsupported digest was filtered twice, and one DS came back
C14_Witness ==
    /\ Len(log) = 2
    /\ log[1].err = nil
    /\ Len(log[1].values) = 1
    /\ \E i, j, k \in DOMAIN top.dsSet :
          /\ i < j
          /\ top.dsSet[i].rtype = "DS" /\ top.dsSet[j].rtype = "DS"
          /\ dsKey(top.dsSet[i]) = dsKey(top.dsSet[j])
          /\ top.dsSet[i].data.DigestType = SHA384
          /\ top.dsSet[j].data.DigestType = SHA256
          /\ top.dsSet[k].rtype = "DS"
          /\ ~isDigestSupported(top.dsSet[k].data.DigestType)

(***************************************************************************)
(* Package dnssec: canonicalNameCompare and covers.                        *)
(*                                                                         *)
(* A label is written in presentation format; PackLabel gives the octets   *)
(* dns.PackDomainName writes for it.  The octets of the labels tried are   *)
(* ASCII letters, the lone continuation octets 0x80 and 0x81, and the      *)
(* two-octet UTF-8 forms of U+00C9 and U+00E9.                             *)
(***************************************************************************)
\* dns.PackDomainName(label + "."): the octets between the length octet and
\* the root octet
PackLabel(l) ==
    CASE l = "a" -> <<97>>
      [] l = "B" -> <<66>>
      [] l = "b" -> <<98>>
      [] l = "*" -> <<42>>
      [] l = "c" -> <<99>>
      [] l = "q" -> <<113>>
      [] l = "w" -> <<119>>
      [] l = "z" -> <<122>>
      [] l = "\\200" -> <<128>>
      [] l = "\\201" -> <<129>>
      [] l = "\\195\\137" -> <<195, 137>>
      [] l = "\\195\\169" -> <<195, 169>>
      [] OTHER -> <<>>

\* utf8.RuneError
RuneError == 65533

\* utf8.DecodeRune at position i of b (octets below 0xE0): the rune and its
\* width
DecodeRune(b, i) ==
    IF b[i] < 128 THEN [r |-> b[i], wid |-> 1]
    ELSE IF /\ b[i] >= 194 /\ b[i] <= 223
            /\ i < Len(b) /\ b[i + 1] >= 128 /\ b[i + 1] <= 191
        THEN [r |-> (b[i] - 192) * 64 + (b[i + 1] - 128), wid |-> 2]
    ELSE [r |-> RuneError, wid |-> 1]

\* unicode.ToLower on the runes below U+0100 and on utf8.RuneError
RuneToLower(r) ==
    IF r >= 65 /\ r <= 90 THEN r + 32
    ELSE IF r >= 192 /\ r <= 222 /\ r # 215 THEN r + 32
    ELSE r

\* utf8.AppendRune
EncodeRune(r) ==
    IF r < 128 THEN <<r>>
    ELSE IF r < 2048 THEN <<192 + (r \div 64), 128 + (r % 64)>>
    ELSE <<224 + (r \div 4096), 128 + ((r \div 64) % 64), 128 + (r % 64)>>

\* bytes.Map(unicode.ToLower, b) from position i on
RECURSIVE MapToLower(_, _)
MapToLower(b, i) ==
    IF i > Len(b) THEN <<>>
    ELSE LET d == DecodeRune(b, i)
         IN  EncodeRune(RuneToLower(d.r)) \o MapToLower(b, i + d.wid)

\* lowercasing of the ASCII letters only, octet by octet
AsciiToLower(b) ==
    [i \in 1..Len(b) |-> IF b[i] >= 65 /\ b[i] <= 90 THEN b[i] + 32 ELSE b[i]]

\* bytes.ToLower: the ASCII loop when every octet is ASCII, bytes.Map otherwise
BytesToLower(b) ==
    IF \A i \in 1..Len(b) : b[i] < 128 THEN AsciiToLower(b) ELSE MapToLower(b, 1)

\* bytes.Compare from position i on
RECURSIVE BytesCompareFrom(_, _, _)
BytesCompareFrom(x, y, i) ==
    IF i > Len(x) /\ i > Len(y) THEN 0
    ELSE IF i > Len(x) THEN -1
    ELSE IF i > Len(y) THEN 1
    ELSE IF x[i] < y[i] THEN -1
    ELSE IF x[i] > y[i] THEN 1
    ELSE BytesCompareFrom(x, y, i + 1)

BytesCompare(x, y) == BytesCompareFrom(x, y, 1)

\* dns.IsDomainName: no empty label before the root
IsDomainName(n) == \A i \in 1..(Len(n) - 1) : n[i] # Root

errInvalidName == <<"invalid domain name">>

\* the comparison of the labels of one position
labelCompare(l1, l2) ==
    BytesCompare(BytesToLower(PackLabel(l1)), BytesToLower(PackLabel(l2)))

\* canonicalNameCompare: the loop from the right; k positions are equal so far
RECURSIVE compareFromRight(_, _, _)
compareFromRight(labels1, labels2, k) ==
    IF k >= Len(labels1) \/ k >= Len(labels2) THEN 0
    ELSE LET res == labelCompare(labels1[Len(labels1) - k], labels2[Len(labels2) - k])
         IN  IF res # 0 THEN res ELSE compareFromRight(labels1, labels2, k + 1)

\* canonicalNameCompare(name1, name2): -1, 0 or 1, and an error
canonicalNameCompare(name1, name2) ==
    LET n1 == Fqdn(name1)
        n2 == Fqdn(name2)
        labels1 == Labels(n1)
        labels2 == Labels(n2)
        res == compareFromRight(labels1, labels2, 0)
    IN  IF ~IsDomainName(n1) \/ ~IsDomainName(n2) THEN [res |-> 0, err |-> errInvalidName]
        ELSE IF res # 0 THEN [res |-> res, err |-> nil]
        ELSE IF Len(labels1) = Len(labels2) THEN [res |-> 0, err |-> nil]
        ELSE IF Len(labels1) <= Len(labels2) THEN [res |-> -1, err |-> nil]
        ELSE [res |-> 1, err |-> nil]

\* compareWithErrors: the result, and 1 when the comparison failed
compareWithErrors(a, b) ==
    LET c == canonicalNameCompare(a, b)
    IN  [res |-> c.res, errs |-> IF c.err # nil THEN 1 ELSE 0]

\* a range check that forgets the errors counted
coversIgnoringErrors(errs) == FALSE

\* covers: errs > 0
coversFailed(errs) == errs > 0

\* covers(owner, next, qname)
covers(owner, next, qname) ==
    LET c1 == compareWithErrors(qname, owner)
        c2 == compareWithErrors(owner, next)
        c3 == compareWithErrors(qname, next)
        lastNSEC == c2.res >= 0
        inRange == lastNSEC \/ c3.res < 0
        errs == c1.errs + c2.errs + (IF lastNSEC THEN 0 ELSE c3.errs)
    IN  IF c1.res <= 0 THEN FALSE
        ELSE IF ~inRange THEN FALSE
        ELSE IF coversFailed(errs) THEN FALSE
        ELSE TRUE

\* most labels of a name tried
MaxLabels == 2

CmpLabels == {"a", "B", "b"}

\* the names compared: the names of up to MaxLabels letters, names with
\* octets that are not ASCII, a name without the trailing dot and two names
\* that are no domain names
CmpNames ==
    {Append(n, Root) : n \in SeqsUpTo(CmpLabels, MaxLabels)}
    \cup {<<"\\200", Root>>, <<"\\201", Root>>, <<"a", "\\200", Root>>,
          <<"\\195\\137", Root>>, <<"\\195\\169", Root>>,
          <<"a">>, <<"a", "", "b", Root>>, <<"", "a", Root>>}

InitCmp ==
    /\ synced = TRUE
    /\ handlers = {}
    /\ stack = <<>>
    /\ ret = NoRet
    /\ top \in [fn : {"canonicalNameCompare"}, a : CmpNames, b : CmpNames, c : CmpNames]
    /\ log = <<>>
    /\ nact = 0

\* canonicalNameCompare on each pair of the three names
CompareCall ==
    /\ ret = NoRet
    /\ ret' = [from |-> "canonicalNameCompare",
               val |-> [x \in {"a", "b", "c"}, y \in {"a", "b", "c"} |->
                           canonicalNameCompare(top[x], top[y])]]
    /\ UNCHANGED <<synced, handlers, stack, top, log, nact>>

\* covers(owner, next, qname) with the three names in that order
CoversCall ==
    /\ Returned({"canonicalNameCompare"})
    /\ ret' = [from |-> "covers", val |-> ret.val,
               result |-> covers(top.a, top.b, top.c)]
    /\ UNCHANGED <<synced, handlers, stack, top, log, nact>>

NextCmp ==
    \/ CompareCall
    \/ CoversCall

SpecCmp == InitCmp /\ [][NextCmp]_vars

\* the label sequence of a name, each label as its octets with the ASCII
\* letters lowercased
LoweredLabels(n) ==
    LET ls == Labels(Fqdn(n))
    IN  [i \in 1..Len(ls) |-> AsciiToLower(PackLabel(ls[i]))]

ValidName(n) == IsDomainName(Fqdn(n))

\* labels p is a proper suffix of labels q
ProperSuffix(p, q) ==
    Len(p) < Len(q) /\ SubSeq(q, Len(q) - Len(p) + 1, Len(q)) = p

Compared == Returned({"canonicalNameCompare", "covers"})

Cmp(x, y) == ret.val[x, y].res

\* sign rule, reflexivity and transitivity of the results on valid names
CmpIsPreorder ==
    Compared /\ (\A x \in {"a", "b", "c"} : ValidName(top[x])) =>
        /\ \A x, y \in {"a", "b", "c"} :
              /\ ret.val[x, y].err = nil
              /\ Cmp(x, y) \in {-1, 0, 1}
              /\ Cmp(x, y) = -Cmp(y, x)
        /\ \A x \in {"a", "b", "c"} : Cmp(x, x) = 0
        /\ Cmp("a", "b") <= 0 /\ Cmp("b", "c") <= 0 => Cmp("a", "c") <= 0
        /\ Cmp("a", "b") = 0 => Cmp("a", "c") = Cmp("b", "c")
        /\ \A x, y \in {"a", "b", "c"} :
              ProperSuffix(LoweredLabels(top[x]), LoweredLabels(top[y])) => Cmp(x, y) = -1

\* C15: on valid names canonicalNameCompare is a total order: compare(a,b) =
\* -compare(b,a), compare(a,a) = 0, compare(a,b) = 0 exactly when a and b have
\* equal lowercased label sequences, it is transitive, and a proper
\* label-suffix of a name sorts before the name.
C15_TotalOrder ==
    /\ CmpIsPreorder
    /\ Compared /\ ValidName(top.a) /\ ValidName(top.b) =>
          (Cmp("a", "b") = 0 <=> LoweredLabels(top.a) = LoweredLabels(top.b))

\* some comparison covers(owner, next, q) makes reports an invalid name
CoversInvalid ==
    \/ ret.val["c", "a"].err # nil
    \/ ret.val["a", "b"].err # nil
    \/ ret.val["c", "b"].err # nil

ErrNoSignatures == <<"no rrsig records for zone that should be signed">>
ErrMissingDNSKEY == <<"no matching dnskey found for rrsig records">>
ErrSignatureBailiwick == <<"rrsig record out of bailiwick">>
ErrInvalidSignaturePeriod == <<"incorrect signature validity period">>
ErrMissingSigned == <<"signed records are missing">>
ErrSig == <<"dns: bad signature">>

DNSKEY(owner, keyTag, id, weak) ==
    RR(owner, "DNSKEY", NoName, [KeyTag |-> keyTag, id |-> id, weak |-> weak])

\* the canonical form of a record, as it is signed
CanonicalRR(rr) == [rr EXCEPT !.owner = ToLowerName(rr.owner)]

RRSIG(owner, typeCovered, keyTag, signer, labels, inception, expiration, by, over) ==
    RR(owner, "RRSIG", NoName,
       [TypeCovered |-> typeCovered, KeyTag |-> keyTag, SignerName |-> signer,
        Labels |-> labels, Inception |-> inception, Expiration |-> expiration,
        by |-> by, over |-> {CanonicalRR(r) : r \in over}])

\* a validator for which no key is too weak
shouldDowngradeKeyNever(key) == FALSE

\* shouldDowngradeKey, as recorded in the key
shouldDowngradeKey(key) == key.data.weak

\* dns.CountLabel
CountLabel(n) == Len(Labels(n))

\* IsSubDomainStrict(parent, child)
IsSubDomainStrict(parent, child) ==
    IsSubDomain(parent, child) /\ CountLabel(child) > CountLabel(parent)

\* extractRRSet(in, name, t)
extractRRSet(in, name, t) ==
    SelectSeq(in, LAMBDA r : r.rtype = t /\ EqualFold(name, r.owner))

\* sig.Verify: the form in which the record rr is signed by sig; an owner
\* with more labels than sig.Labels is replaced by the wildcard it matched
SignedForm(sig, rr) ==
    LET ls == ToLowerName(Labels(rr.owner))
    IN  IF Len(ls) > sig.data.Labels
            THEN [CanonicalRR(rr) EXCEPT
                     !.owner = <<"*">> \o SubSeq(ls, Len(ls) - sig.data.Labels + 1, Len(ls))
                                       \o <<Root>>]
            ELSE CanonicalRR(rr)

\* sig.Verify(key, rrset): the checks of the fields and the signature itself
sigVerify(sig, key, rrset) ==
    /\ Len(rrset) > 0
    /\ sig.data.KeyTag = key.data.KeyTag
    /\ EqualFold(sig.data.SignerName, key.owner)
    /\ rrset[1].rtype = sig.data.TypeCovered
    /\ sig.data.by = key.data.id
    /\ {SignedForm(sig, r) : r \in Range(rrset)} = sig.data.over

\* sig.ValidityPeriod(t)
ValidityPeriod(sig, t) == sig.data.Inception <= t /\ t <= sig.data.Expiration

\* a validator that takes no notice of the validity period
sigInPeriodAlways(sig, t) == TRUE

\* verifySignatures: sig.ValidityPeriod(t)
sigInPeriod(sig, t) == ValidityPeriod(sig, t)

\* verifySignatures: the state of the walk before the first section
WalkStart ==
    [Answer |-> <<>>, Ns |-> <<>>, Extra |-> <<>>, delegations |-> <<>>,
     verifiedSets |-> {}, downgrade |-> FALSE, lastErr |-> nil]

\* verifySignatures: one record rr of the section with number sectionId
verifyRecord(zone, qname, section, sectionId, rr, trustedKeys, t, st) ==
    LET sigName == CanonicalName(rr.owner)
        id == <<sigName, rr.data.TypeCovered>>
        key == trustedKeys[rr.data.KeyTag]
        rrset == extractRRSet(section, rr.owner, rr.data.TypeCovered)
        verified == [st EXCEPT !.verifiedSets = @ \cup {id}]
    IN  IF sectionId = 1 /\ rr.rtype = "NS"
            THEN IF IsSubDomainStrict(zone, rr.owner) /\ IsSubDomain(rr.owner, qname)
                     THEN [st EXCEPT !.delegations = Append(@, rr)]
                     ELSE st
        ELSE IF rr.rtype # "RRSIG" THEN st
        ELSE IF id \in st.verifiedSets THEN st
        ELSE IF ~IsSubDomain(zone, sigName)
            THEN [st EXCEPT !.lastErr = ErrSignatureBailiwick]
        ELSE IF rr.data.KeyTag \notin DOMAIN trustedKeys
            THEN [st EXCEPT !.lastErr = ErrMissingDNSKEY]
        ELSE IF ~EqualFold(key.owner, rr.data.SignerName)
            THEN [st EXCEPT !.lastErr = ErrMissingDNSKEY]
        ELSE IF shouldDowngradeKey(key) THEN [st EXCEPT !.downgrade = TRUE]
        ELSE IF Len(rrset) = 0 THEN [st EXCEPT !.lastErr = ErrMissingSigned]
        ELSE IF ~sigVerify(rr, key, rrset) THEN [st EXCEPT !.lastErr = ErrSig]
        ELSE IF ~sigInPeriod(rr, t) THEN [st EXCEPT !.lastErr = ErrInvalidSignaturePeriod]
        ELSE IF sectionId = 0 THEN [verified EXCEPT !.Answer = @ \o rrset \o <<rr>>]
        ELSE IF sectionId = 1 THEN [verified EXCEPT !.Ns = @ \o rrset \o <<rr>>]
        ELSE [verified EXCEPT !.Extra = @ \o rrset \o <<rr>>]

\* verifySignatures: the records of one section from index i on
RECURSIVE verifySection(_, _, _, _, _, _, _, _)
verifySection(zone, qname, section, sectionId, i, trustedKeys, t, st) ==
    IF i > Len(section) THEN st
    ELSE verifySection(zone, qname, section, sectionId, i + 1, trustedKeys, t,
            verifyRecord(zone, qname, section, sectionId, section[i], trustedKeys, t, st))

\* a result that counts the rrsets verified in the additional section too
signaturesResultAnySection(msg, st) ==
    IF Len(st.Answer) > 0 \/ Len(st.Ns) > 0 \/ Len(st.Extra) > 0
        THEN [secure |-> TRUE, err |-> nil,
              msg |-> [msg EXCEPT !.Answer = st.Answer, !.Extra = st.Extra,
                                  !.Ns = st.Ns \o st.delegations]]
    ELSE IF st.downgrade THEN [secure |-> FALSE, err |-> nil, msg |-> msg]
    ELSE [secure |-> FALSE,
          msg |-> [msg EXCEPT !.Answer = st.Answer, !.Ns = st.Ns, !.Extra = st.Extra],
          err |-> IF st.lastErr # nil
                      THEN <<"error verifying signatures: " \o st.lastErr[1]>>
                      ELSE ErrNoSignatures]

\* verifySignatures after the walk (state st): Secure, the error and the
\* message as it is left
signaturesResult(msg, st) ==
    IF Len(st.Answer) > 0 \/ Len(st.Ns) > 0
        THEN [secure |-> TRUE, err |-> nil,
              msg |-> [msg EXCEPT !.Answer = st.Answer, !.Extra = st.Extra,
                                  !.Ns = st.Ns \o st.delegations]]
    ELSE IF st.downgrade THEN [secure |-> FALSE, err |-> nil, msg |-> msg]
    ELSE [secure |-> FALSE,
          msg |-> [msg EXCEPT !.Answer = st.Answer, !.Ns = st.Ns, !.Extra = st.Extra],
          err |-> IF st.lastErr # nil
                      THEN <<"error verifying signatures: " \o st.lastErr[1]>>
                      ELSE ErrNoSignatures]

\* verifySignatures: a section is walked with an empty verifiedSets map
nextSection(st) == [st EXCEPT !.verifiedSets = {}]

\* verifySignatures(zone, qname, msg, trustedKeys, t, minKeySize)
verifySignatures(zone, qname, msg, trustedKeys, t) ==
    signaturesResult(msg,
        verifySection(zone, qname, msg.Extra, 2, 1, trustedKeys, t, nextSection(
            verifySection(zone, qname, msg.Ns, 1, 1, trustedKeys, t, nextSection(
                verifySection(zone, qname, msg.Answer, 0, 1, trustedKeys, t, WalkStart))))))

NSEC(owner, next, bitmap) ==
    RR(owner, "NSEC", NoName, [NextDomain |-> next, TypeBitMap |-> bitmap])

\* dns.RcodeNameError
RcodeNameError == 3

\* verifyAnswer: the records of the answer that are kept, from index i on
RECURSIVE sanitizedAnswer(_, _, _, _)
sanitizedAnswer(answer, qname, qtype, i) ==
    IF i > Len(answer) THEN <<>>
    ELSE LET rr == answer[i]
             rest == sanitizedAnswer(answer, qname, qtype, i + 1)
         IN  IF rr.rtype = qtype \/ rr.rtype = "CNAME"
                 THEN IF EqualFold(qname, rr.owner) THEN <<rr>> \o rest ELSE rest
             ELSE IF /\ rr.rtype = "RRSIG" /\ EqualFold(qname, rr.owner)
                     /\ rr.data.TypeCovered \in {qtype, "CNAME"}
                 THEN <<rr>> \o rest
             ELSE rest

\* verifyAnswer(msg, qname, qtype)
verifyAnswer(msg, qname, qtype) ==
    LET answer == sanitizedAnswer(msg.Answer, qname, qtype, 1)
        wildcard == \E i \in DOMAIN answer :
                        /\ answer[i].rtype = "RRSIG" /\ answer[i].rtype # qtype
                        /\ answer[i].data.Labels < CountLabel(qname)
        nx == \E i \in DOMAIN msg.Ns :
                  /\ msg.Ns[i].rtype = "NSEC"
                  /\ covers(msg.Ns[i].owner, msg.Ns[i].data.NextDomain, qname)
        kept == [msg EXCEPT !.Answer = answer]
    IN  IF Len(msg.Answer) = 0 \/ Len(answer) = 0
            THEN [secure |-> FALSE, err |-> <<"empty answer">>, msg |-> msg]
        ELSE IF wildcard /\ ~nx
            THEN [secure |-> FALSE, err |-> <<"bad wildcard substitution">>, msg |-> kept]
        ELSE [secure |-> TRUE, err |-> nil, msg |-> kept]

\* verifyNameError: the wildcard proof of one NSEC, from the i-th ancestor on
\* a wildcard proof that tries the closest wildcard only
wildcardCoveredClosestOnly(nsec, zone, qnameParts, i) ==
    /\ Len(qnameParts) >= i
    /\ IsSubDomain(zone, <<"*">> \o SubSeq(qnameParts, i + 1, Len(qnameParts)) \o <<Root>>)
    /\ covers(nsec.owner, nsec.data.NextDomain,
              <<"*">> \o SubSeq(qnameParts, i + 1, Len(qnameParts)) \o <<Root>>)

RECURSIVE wildcardCovered(_, _, _, _)
wildcardCovered(nsec, zone, qnameParts, i) ==
    IF Len(qnameParts) < i THEN FALSE
    ELSE LET domain == <<"*">> \o SubSeq(qnameParts, i + 1, Len(qnameParts)) \o <<Root>>
         IN  IF ~IsSubDomain(zone, domain) THEN FALSE
             ELSE IF covers(nsec.owner, nsec.data.NextDomain, domain) THEN TRUE
             ELSE wildcardCovered(nsec, zone, qnameParts, i + 1)

\* verifyNameError(msg, zone, qname)
verifyNameError(msg, zone, qname) ==
    LET nsecs == {i \in DOMAIN msg.Ns : msg.Ns[i].rtype = "NSEC"}
        nameProof == \E i \in nsecs :
                        covers(msg.Ns[i].owner, msg.Ns[i].data.NextDomain, qname)
        wildcardProof == \E i \in nsecs :
                        wildcardCovered(msg.Ns[i], zone, Labels(qname), 1)
    IN  IF ~nameProof THEN [secure |-> FALSE, err |-> <<"missing name proof">>]
        ELSE IF ~wildcardProof
            THEN [secure |-> FALSE, err |-> <<"missing wildcardProof proof">>]
        ELSE [secure |-> TRUE, err |-> nil]

\* verifyNoData: the DS record rr of the authority section
noDataDS(msg, zone, rr) ==
    LET nss == {i \in DOMAIN msg.Ns : msg.Ns[i].rtype = "NS"}
    IN  IF ~IsSubDomainStrict(zone, rr.owner)
            THEN [secure |-> FALSE, err |-> <<"ds record must be a child of zone">>]
        ELSE IF \E i \in nss : ~EqualFold(msg.Ns[i].owner, rr.owner)
            THEN [secure |-> FALSE, err |-> <<"bad referral DS owner doesn't match NS">>]
        ELSE IF nss # {} THEN [secure |-> TRUE, err |-> nil]
        ELSE [secure |-> FALSE, err |-> <<"DS record exists without a delegation">>]

\* a bitmap check that looks for the qtype only
bitmapErrorTypeOnly(bitmap, qtype, i) ==
    IF \E j \in DOMAIN bitmap : bitmap[j] = qtype THEN <<"type exists">> ELSE nil

\* verifyNoData: the type bitmap of the NSEC at qname, from index i on
RECURSIVE bitmapError(_, _, _)
bitmapError(bitmap, qtype, i) ==
    IF i > Len(bitmap) THEN nil
    ELSE IF bitmap[i] = qtype THEN <<"type exists">>
    ELSE IF bitmap[i] = "CNAME" THEN <<"cname exists">>
    ELSE bitmapError(bitmap, qtype, i + 1)

\* a delegation check that lets the zone's own NS records pass
delegationErrorOfOwnerOnly(ns, nsec, zone, hasDS, hasDelegation, i) ==
    IF ~\E j \in DOMAIN ns : ns[j].rtype = "NS" THEN nil
    ELSE IF hasDS THEN <<"bad insecure delegation proof DS exists in NSEC bitmap">>
    ELSE IF ~hasDelegation THEN <<"NS isn't set in NSEC bitmap">>
    ELSE IF \E j \in DOMAIN ns : ns[j].rtype = "NS" /\ ~EqualFold(ns[j].owner, nsec.owner)
        THEN <<"invalid NS owner name">>
    ELSE nil

\* verifyNoData: the NS records of the authority section against the NSEC at
\* qname, from index i on
RECURSIVE delegationError(_, _, _, _, _, _)
delegationError(ns, nsec, zone, hasDS, hasDelegation, i) ==
    IF i > Len(ns) THEN nil
    ELSE IF ns[i].rtype # "NS"
        THEN delegationError(ns, nsec, zone, hasDS, hasDelegation, i + 1)
    ELSE IF hasDS THEN <<"bad insecure delegation proof DS exists in NSEC bitmap">>
    ELSE IF ~hasDelegation THEN <<"NS isn't set in NSEC bitmap">>
    ELSE IF ~EqualFold(ns[i].owner, nsec.owner) THEN <<"invalid NS owner name">>
    ELSE IF EqualFold(ns[i].owner, zone) THEN <<"bad referral">>
    ELSE delegationError(ns, nsec, zone, hasDS, hasDelegation, i + 1)

\* verifyNoData: the NSEC record rr whose owner is qname
noDataNSEC(msg, zone, qtype, rr) ==
    LET bitmap == rr.data.TypeBitMap
        typeErr == bitmapError(bitmap, qtype, 1)
        hasDS == \E i \in DOMAIN bitmap : bitmap[i] = "DS"
        hasDelegation == \E i \in DOMAIN bitmap : bitmap[i] = "NS"
        nsErr == delegationError(msg.Ns, rr, zone, hasDS, hasDelegation, 1)
    IN  IF typeErr # nil THEN [secure |-> FALSE, err |-> typeErr]
        ELSE IF nsErr # nil THEN [secure |-> FALSE, err |-> nsErr]
        ELSE [secure |-> TRUE, err |-> nil]

\* a loop that passes over the NSEC3 records
noDataFromPastNSEC3(msg, zone, qname, qtype, i) ==
    LET deciding == {k \in i..Len(msg.Ns) :
                        \/ msg.Ns[k].rtype = "DS"
                        \/ /\ msg.Ns[k].rtype = "NSEC"
                           /\ \/ ~EqualFold(msg.Ns[k].owner, qname)
                              \/ IsSubDomain(zone, msg.Ns[k].data.NextDomain)}
        first == CHOOSE k \in deciding : \A j \in deciding : k <= j
    IN  IF deciding = {} THEN [secure |-> FALSE, err |-> <<"no valid nsec records found">>]
        ELSE IF msg.Ns[first].rtype = "DS" THEN noDataDS(msg, zone, msg.Ns[first])
        ELSE IF ~EqualFold(msg.Ns[first].owner, qname) THEN verifyNameError(msg, zone, qname)
        ELSE noDataNSEC(msg, zone, qtype, msg.Ns[first])

\* verifyNoData: the loop over the authority section from index i on
RECURSIVE noDataFrom(_, _, _, _, _)
noDataFrom(msg, zone, qname, qtype, i) ==
    IF i > Len(msg.Ns) THEN [secure |-> FALSE, err |-> <<"no valid nsec records found">>]
    ELSE LET rr == msg.Ns[i]
         IN  IF rr.rtype = "NSEC3" /\ IsSubDomain(zone, rr.owner)
                 THEN [secure |-> FALSE, err |-> nil]
             ELSE IF rr.rtype = "DS" THEN noDataDS(msg, zone, rr)
             ELSE IF rr.rtype = "NSEC"
                 THEN IF ~EqualFold(rr.owner, qname) THEN verifyNameError(msg, zone, qname)
                      ELSE IF ~IsSubDomain(zone, rr.data.NextDomain)
                          THEN noDataFrom(msg, zone, qname, qtype, i + 1)
                      ELSE noDataNSEC(msg, zone, qtype, rr)
             ELSE noDataFrom(msg, zone, qname, qtype, i + 1)

\* verifyNoData(msg, zone, qname, qtype)
verifyNoData(msg, zone, qname, qtype) ==
    IF Len(msg.Ns) = 0 THEN [secure |-> FALSE, err |-> <<"no nsec records found">>]
    ELSE noDataFrom(msg, zone, qname, qtype, 1)

\* the verdict r of a check that leaves the message as it is
leftAs(r, msg) == [secure |-> r.secure, err |-> r.err, msg |-> msg]

\* dnssec.Verify after verifySignatures has returned v
verifyVerified(v, zone, qname, qtype) ==
    IF v.err # nil THEN [secure |-> FALSE, err |-> v.err, msg |-> v.msg]
    ELSE IF ~v.secure THEN [secure |-> FALSE, err |-> nil, msg |-> v.msg]
    ELSE IF v.msg.Rcode = RcodeSuccess /\ Len(v.msg.Answer) = 0
        THEN leftAs(verifyNoData(v.msg, zone, qname, qtype), v.msg)
    ELSE IF v.msg.Rcode = RcodeSuccess THEN verifyAnswer(v.msg, qname, qtype)
    ELSE IF v.msg.Rcode = RcodeNameError
        THEN leftAs(verifyNameError(v.msg, zone, qname), v.msg)
    ELSE [secure |-> FALSE, err |-> <<"verify error: unexpected rcode">>, msg |-> v.msg]

\* dnssec.Verify(msg, zone, qname, qtype, trustedKeys, t, minRSA): Secure, the
\* error and the message as it is left
dnssecVerify(msg, zone, qname, qtype, trustedKeys, t) ==
    IF ~IsFqdn(zone) \/ ~IsFqdn(qname)
        THEN [secure |-> FALSE, err |-> <<"zone and qname must be fqdn">>, msg |-> msg]
    ELSE verifyVerified(verifySignatures(zone, qname, msg, trustedKeys, t),
                        zone, qname, qtype)

(***************************************************************************)
(* The validator run on its own: the zone z. with a strong key (tag 1) and *)
(* a downgradable key (tag 2), the question (q.c.z., A) at time Now, and   *)
(* responses put together from signed, unsigned, badly signed and foreign  *)
(* records.                                                                *)
(***************************************************************************)
\* longest answer section tried
MaxAnswer == 3

\* time.Now(), and the times around it that signatures begin and end at
Now == 2

VZone == <<"z", Root>>

VQName == <<"q", "c", "z", Root>>

VChild == <<"c", "z", Root>>

StrongKey == DNSKEY(VZone, 1, "k1", FALSE)

WeakKey == DNSKEY(VZone, 2, "k2", TRUE)

\* the trusted key sets: both keys, or the strong one alone
VKeySets == {[tag \in {1, 2} |-> IF tag = 1 THEN StrongKey ELSE WeakKey],
             [tag \in {1} |-> StrongKey]}

\* a signature of the zone's strong key over the rrset, valid around Now
Signed(owner, typeCovered, over) ==
    RRSIG(owner, typeCovered, 1, VZone, CountLabel(owner), Now - 1, Now + 1, "k1", over)

VAnswerPool ==
    LET a1 == A(VQName, "ip1")
    IN  {a1,
         A(VQName, "ip2"),
         A(<<"w", "z", Root>>, "ip3"),
         Signed(VQName, "A", {a1}),
         RRSIG(VQName, "A", 2, VZone, 3, Now - 1, Now + 1, "k2", {a1}),
         RRSIG(VQName, "A", 1, VZone, 3, Now - 2, Now - 1, "k1", {a1})}

\* the authority sections tried
VAuthorities ==
    LET soa == RR(VZone, "SOA", NoName, "soa")
        nsC == NS(VChild, <<"ns", "test", Root>>)
        nsO == NS(<<"o", Root>>, <<"ns", "test", Root>>)
        nsZ == NS(VZone, <<"ns", "test", Root>>)
        dsC == DS(VChild, "ds")
        nsecQ == NSEC(VQName, <<"w", "z", Root>>, <<"AAAA", "RRSIG", "NSEC">>)
        nsecZ == NSEC(VZone, <<"w", "z", Root>>, <<"SOA", "RRSIG", "NSEC">>)
        nsec3 == RR(<<"a", "z", Root>>, "NSEC3", NoName, "nsec3")
    IN  {<<>>,
         <<nsC>>,
         <<nsO, nsZ>>,
         <<soa, Signed(VZone, "SOA", {soa})>>,
         <<nsC, soa, Signed(VZone, "SOA", {soa}),
           RRSIG(VZone, "SOA", 1, VZone, 1, Now, Now, "k1", {soa})>>,
         <<soa, RRSIG(VZone, "SOA", 1, VZone, 1, Now - 1, Now + 1, "forged", {soa})>>,
         <<soa, RRSIG(VZone, "SOA", 3, VZone, 1, Now - 1, Now + 1, "k3", {soa})>>,
         <<soa, RRSIG(VZone, "SOA", 1, <<"o", Root>>, 1, Now - 1, Now + 1, "k1", {soa})>>,
         <<RR(<<"o", Root>>, "SOA", NoName, "soa"),
           Signed(<<"o", Root>>, "SOA", {RR(<<"o", Root>>, "SOA", NoName, "soa")})>>,
         <<Signed(VZone, "SOA", {soa})>>,
         <<nsC, dsC, Signed(VChild, "DS", {dsC})>>,
         <<nsecQ, Signed(VQName, "NSEC", {nsecQ})>>,
         <<nsecZ, Signed(VZone, "NSEC", {nsecZ})>>,
         <<nsec3, Signed(<<"a", "z", Root>>, "NSEC3", {nsec3}), nsecQ,
           Signed(VQName, "NSEC", {nsecQ})>>}

\* the additional sections tried
VAdditionals ==
    LET glue == A(<<"ns", "test", Root>>, "ip1")
        inz == A(<<"w", "z", Root>>, "ip3")
    IN  {<<>>, <<glue, inz, Signed(<<"w", "z", Root>>, "A", {inz})>>}

\* answers out of a wildcard of the zone, and answers that are not
WildAnswers ==
    LET a1 == A(VQName, "ip1")
        cn == CNAME(VQName, <<"w", "z", Root>>)
        inz == A(<<"w", "z", Root>>, "ip3")
        star(r) == [r EXCEPT !.owner = <<"*", "c", "z", Root>>]
        wild(r) == RRSIG(VQName, r.rtype, 1, VZone, 2, Now - 1, Now + 1, "k1", {star(r)})
    IN  {<<a1, wild(a1)>>,
         <<wild(a1), a1>>,
         <<a1, Signed(VQName, "A", {a1})>>,
         <<cn, wild(cn)>>,
         <<inz, Signed(<<"w", "z", Root>>, "A", {inz})>>}

\* authority sections with an NSEC record that covers the qname, and with
\* one that does not
WildAuthorities ==
    LET nsecZ == NSEC(VZone, <<"w", "z", Root>>, <<"SOA", "RRSIG", "NSEC">>)
        nsecA == NSEC(<<"a", "z", Root>>, <<"b", "z", Root>>, <<"A", "RRSIG", "NSEC">>)
    IN  {<<>>,
         <<nsecA, Signed(<<"a", "z", Root>>, "NSEC", {nsecA})>>,
         <<nsecA, Signed(<<"a", "z", Root>>, "NSEC", {nsecA}),
           nsecZ, Signed(VZone, "NSEC", {nsecZ})>>}

\* longest authority section of a response without answer tried (counted
\* without the signatures)
MaxAuthority == 2

\* the records the authority sections of the responses without answer are
\* made of: NSEC records at the qname q.c.z. and at the apex with several
\* bitmaps and next names, an NSEC that covers q.c.z., NSEC3, DS and NS
NoDataPool ==
    LET inZone == <<"w", "z", Root>>
        host == <<"ns", "test", Root>>
    IN  {NSEC(VQName, inZone, <<"AAAA", "RRSIG", "NSEC">>),
         NSEC(VQName, inZone, <<"AAAA", "A">>),
         NSEC(VQName, inZone, <<"CNAME">>),
         NSEC(VQName, <<"o", Root>>, <<"A", "RRSIG">>),
         NSEC(VQName, inZone, <<"NS", "RRSIG", "NSEC">>),
         NSEC(VQName, inZone, <<"NS", "DS", "RRSIG">>),
         NSEC(VQName, inZone, <<"DS", "RRSIG">>),
         NSEC(VZone, inZone, <<"NS", "SOA", "RRSIG">>),
         NSEC(<<"b", "c", "z", Root>>, <<"w", "c", "z", Root>>, <<"A">>),
         RR(<<"a", "z", Root>>, "NSEC3", NoName, "nsec3"),
         RR(<<"o", Root>>, "NSEC3", NoName, "nsec3"),
         DS(VChild, "ds"),
         NS(VChild, host),
         NS(VQName, host),
         NS(VZone, host)}

\* the records of the pool that matter to a question for the apex
ApexPool ==
    {rr \in NoDataPool :
        \/ rr.rtype = "NS"
        \/ rr.rtype = "DS"
        \/ EqualFold(rr.owner, VZone)
        \/ rr.rtype = "NSEC3" /\ IsSubDomain(VZone, rr.owner)}

\* authority sections with a signature of the downgradable key whose owner
\* is outside the zone
StrayAuthorities ==
    LET soaO == RR(<<"o", Root>>, "SOA", NoName, "soa")
    IN  {<<>>,
         <<soaO, RRSIG(<<"o", Root>>, "SOA", 2, VZone, 1, Now - 1, Now + 1, "k2", {soaO})>>}

\* additional sections with a verified rrset that the downgradable key has
\* signed as well
StrayAdditionals ==
    LET inz == A(<<"w", "z", Root>>, "ip3")
        weak == RRSIG(<<"w", "z", Root>>, "A", 2, VZone, 2, Now - 1, Now + 1, "k2", {inz})
    IN  {<<>>,
         <<inz, Signed(<<"w", "z", Root>>, "A", {inz}), weak>>,
         <<inz, weak, Signed(<<"w", "z", Root>>, "A", {inz})>>}

\* the records the authority sections of the name errors are made of: NSEC
\* records that cover q.c.z., *.c.z. or *.z., both or neither, and an NSEC3
NameErrorPool ==
    {NSEC(<<"b", "c", "z", Root>>, <<"w", "c", "z", Root>>, <<"A">>),
     NSEC(VChild, <<"b", "c", "z", Root>>, <<"A">>),
     NSEC(VZone, <<"a", "z", Root>>, <<"SOA", "RRSIG", "NSEC">>),
     NSEC(VZone, <<"w", "z", Root>>, <<"SOA", "RRSIG", "NSEC">>),
     NSEC(<<"w", "z", Root>>, VZone, <<"A">>),
     RR(<<"a", "z", Root>>, "NSEC3", NoName, "nsec3")}

\* the section made of the records of s from index i on; the first record of
\* each rrset of s but the NS records of a delegation is followed by the
\* signature of the zone's strong key over the rrset
RECURSIVE SignedEach(_, _)
SignedEach(s, i) ==
    IF i > Len(s) THEN <<>>
    ELSE LET same(k) == s[k].owner = s[i].owner /\ s[k].rtype = s[i].rtype
             delegation == s[i].rtype = "NS" /\ s[i].owner # VZone
         IN  (IF delegation \/ \E k \in 1..(i - 1) : same(k) THEN <<s[i]>>
              ELSE <<s[i], Signed(s[i].owner, s[i].rtype,
                                  {s[k] : k \in {j \in DOMAIN s : same(j)}})>>)
             \o SignedEach(s, i + 1)

\* the calls tried: the zone's responses, a call with a zone name that is
\* not fully qualified, questions of several types answered out of a
\* wildcard, responses without answer to a question for q.c.z. and to one
\* for the apex, responses with stray signatures of the downgradable key,
\* and name errors
VerifyInputs ==
    [fn : {"Verify"}, zone : {VZone}, qname : {VQName}, qtype : {"A"},
     keys : VKeySets, Rcode : {RcodeSuccess, RcodeNameError},
     Answer : SeqsUpTo(VAnswerPool, MaxAnswer), Ns : VAuthorities,
     Extra : VAdditionals]
    \cup [fn : {"Verify"}, zone : {VZone, <<"z">>}, qname : {VQName}, qtype : {"A"},
          keys : VKeySets, Rcode : {RcodeSuccess, 2},
          Answer : SeqsUpTo(VAnswerPool, 2), Ns : {<<>>}, Extra : {<<>>}]
    \cup [fn : {"Verify"}, zone : {VZone}, qname : {VQName},
          qtype : {"A", "AAAA", "CNAME", "RRSIG"},
          keys : {[tag \in {1} |-> StrongKey]}, Rcode : {RcodeSuccess},
          Answer : WildAnswers, Ns : WildAuthorities, Extra : {<<>>}]
    \cup [fn : {"Verify"}, zone : {VZone}, qname : {VQName}, qtype : {"A"},
          keys : {[tag \in {1} |-> StrongKey]}, Rcode : {RcodeSuccess},
          Answer : {<<>>},
          Ns : {SignedEach(s, 1) : s \in SeqsUpTo(NoDataPool, MaxAuthority)},
          Extra : {<<>>}]
    \cup [fn : {"Verify"}, zone : {VZone}, qname : {VZone}, qtype : {"A"},
          keys : {[tag \in {1} |-> StrongKey]}, Rcode : {RcodeSuccess},
          Answer : {<<>>},
          Ns : {SignedEach(s, 1) : s \in SeqsUpTo(ApexPool, MaxAuthority)},
          Extra : {<<>>}]
    \cup [fn : {"Verify"}, zone : {VZone}, qname : {VQName}, qtype : {"A"},
          keys : VKeySets, Rcode : {RcodeSuccess},
          Answer : {<<>>, <<A(VQName, "ip1")>>}, Ns : StrayAuthorities,
          Extra : StrayAdditionals]
    \cup [fn : {"Verify"}, zone : {VZone}, qname : {VQName}, qtype : {"A"},
          keys : {[tag \in {1} |-> StrongKey]}, Rcode : {RcodeNameError},
          Answer : {<<>>},
          Ns : {SignedEach(s, 1) : s \in SeqsUpTo(NameErrorPool, MaxAuthority)},
          Extra : {<<>>}]

\* the message of a call
MsgOf(in) == Msg(nil, in.Rcode, FALSE, in.Answer, in.Ns, in.Extra, "")

InitVerify ==
    /\ synced = TRUE
    /\ handlers = {}
    /\ stack = <<>>
    /\ ret = NoRet
    /\ top \in VerifyInputs
    /\ log = <<>>
    /\ nact = 0

\* verifySignatures(zone, qname, msg, trustedKeys, t, minKeySize)
VerifySignaturesCall ==
    /\ ret = NoRet
    /\ ret' = [from |-> "verifySignatures",
               val |-> verifySignatures(top.zone, top.qname, MsgOf(top), top.keys, Now)]
    /\ UNCHANGED <<synced, handlers, stack, top, log, nact>>

\* dnssec.Verify(msg, zone, qname, qtype, trustedKeys, t, minRSA)
VerifyCall ==
    /\ ret = NoRet
    /\ ret' = [from |-> "Verify",
               val |-> dnssecVerify(MsgOf(top), top.zone, top.qname, top.qtype,
                                    top.keys, Now)]
    /\ UNCHANGED <<synced, handlers, stack, top, log, nact>>

\* verifyAnswer(msg, qname, qtype)
VerifyAnswerCall ==
    /\ ret = NoRet
    /\ ret' = [from |-> "verifyAnswer",
               val |-> verifyAnswer(MsgOf(top), top.qname, top.qtype)]
    /\ UNCHANGED <<synced, handlers, stack, top, log, nact>>

\* resolveNS after Verify: the error, or the records handed to flatten
ReadAfterVerify ==
    /\ Returned({"Verify"})
    /\ LET v == ret.val
       IN  ret' = [from |-> "resolveNS", val |-> v,
                   flattened |->
                       IF v.err # nil THEN <<>>
                       ELSE IF Len(v.msg.Answer) > 0 THEN v.msg.Answer
                       ELSE v.msg.Ns \o v.msg.Extra]
    /\ UNCHANGED <<synced, handlers, stack, top, log, nact>>

NextVerify ==
    \/ VerifySignaturesCall
    \/ VerifyCall
    \/ VerifyAnswerCall
    \/ ReadAfterVerify

SpecVerify == InitVerify /\ [][NextVerify]_vars

\* the sections of a message
Sections == {"Answer", "Ns", "Extra"}

\* the call that was made and the message it was given
GivenMsg == MsgOf(top)

\* sig, a record of the given section, verifies: it is made by a trusted key
\* that is not downgradable, over the rrset of its owner and type in that
\* section, it is valid now, and its signer lies in the zone
VerifiedSig(sig, section) ==
    /\ sig.rtype = "RRSIG"
    /\ sig.data.KeyTag \in DOMAIN top.keys
    /\ LET key == top.keys[sig.data.KeyTag]
       IN  /\ ~key.data.weak
           /\ sigVerify(sig, key, extractRRSet(section, sig.owner, sig.data.TypeCovered))
    /\ sig.data.Inception <= Now /\ Now <= sig.data.Expiration
    /\ IsSubDomain(top.zone, sig.data.SignerName)

\* r is a record of the given section that a verifying signature of that
\* section covers, or is such a signature
Covered(r, section) ==
    /\ r \in Range(section)
    /\ \/ VerifiedSig(r, section)
       \/ \E sig \in Range(section) :
             /\ VerifiedSig(sig, section)
             /\ r.rtype = sig.data.TypeCovered
             /\ EqualFold(r.owner, sig.owner)

\* r is a delegation NS record below the zone and at or above qname
PreservedNS(r) ==
    /\ r.rtype = "NS"
    /\ r \in Range(GivenMsg.Ns)
    /\ IsSubDomainStrict(top.zone, r.owner)
    /\ IsSubDomain(r.owner, top.qname)

\* every record of the message is covered by a verified signature of its
\* section or is a preserved delegation NS record
OnlyVerified(msg) ==
    \A sec \in Sections : \A r \in Range(msg[sec]) :
        \/ Covered(r, GivenMsg[sec])
        \/ sec = "Ns" /\ PreservedNS(r)

\* no section holds two signatures of one (owner, type covered)
OncePerSection(msg) ==
    \A sec \in Sections : \A i, j \in DOMAIN msg[sec] :
        /\ i # j
        /\ msg[sec][i].rtype = "RRSIG" /\ msg[sec][j].rtype = "RRSIG"
        /\ EqualFold(msg[sec][i].owner, msg[sec][j].owner)
        => msg[sec][i].data.TypeCovered # msg[sec][j].data.TypeCovered

\* C12: after verifySignatures returns Secure=true, every record left in
\* Answer, Authority and Additional is a member of an rrset of the same
\* original section that some RRSIG verified (trusted key that is not
\* downgradable, inception <= t <= expiration, signer in the zone), or is that
\* RRSIG, or is an Authority NS record strictly below the zone and at or above
\* qname; and each verified rrset is appended at most once per section.
C12_OnlyVerifiedLeft ==
    Returned({"verifySignatures"}) /\ ret.val.secure =>
        /\ ret.val.err = nil
        /\ OnlyVerified(ret.val.msg)
        /\ OncePerSection(ret.val.msg)

\* verifySignatures returned Secure=true for a response with an unsigned
\* answer record, a signature that has expired, two signatures of one
\* authority rrset and a delegation: it dropped records and kept the rest
C12_Witness ==
    /\ Returned({"verifySignatures"})
    /\ ret.val.secure
    /\ Len(ret.val.msg.Answer) = 2
    /\ Len(top.Answer) = 3
    /\ \E i \in DOMAIN top.Answer :
          top.Answer[i].rtype = "RRSIG" /\ top.Answer[i].data.Expiration < Now
    /\ Len(ret.val.msg.Ns) = 3
    /\ Len(top.Ns) = 4

\* the call was made with fully qualified names
FqdnCall == IsFqdn(top.zone) /\ IsFqdn(top.qname)

\* some signature of the given message names a trusted key that is
\* downgradable
WeakSigGiven ==
    \E sec \in Sections : \E sig \in Range(GivenMsg[sec]) :
        /\ sig.rtype = "RRSIG"
        /\ sig.data.KeyTag \in DOMAIN top.keys
        /\ top.keys[sig.data.KeyTag].data.weak

\* C13 as stated: after Verify returns, whatever its outcome, the message
\* holds no record that no verified signature covers (other than preserved
\* delegation NS records).
C13_NoUnverifiedVisible ==
    Returned({"Verify", "resolveNS"}) => OnlyVerified(ret.val.msg)

\* C13: after Verify returns Secure=true, or an error for fully qualified zone
\* and qname, the message holds no record that no verified signature covers
\* (other than preserved delegation NS records).  When it returns Secure=false
\* without error, the message is either pruned like that or, if no
\* signature with an owner in the zone verified in Answer and Authority and
\* a signature named a downgradable trusted key, the message as it was
\* given, unverified records included;
\* resolveNS flattens those with Secure=false.  When zone or qname is not
\* fully qualified Verify returns an error and leaves the message as given;
\* resolveNS hands no record of a message on after an error.
C13_VisibleOnlyAsInsecure ==
    Returned({"Verify", "resolveNS"}) =>
        LET v == ret.val
        IN  /\ v.secure => v.err = nil /\ OnlyVerified(v.msg)
            /\ v.err # nil /\ FqdnCall => OnlyVerified(v.msg)
            /\ ~FqdnCall => v.err # nil /\ v.msg = GivenMsg
            /\ ~v.secure /\ v.err = nil =>
                  \/ OnlyVerified(v.msg)
                  \/ /\ v.msg = GivenMsg
                     /\ WeakSigGiven
                     /\ \A sec \in {"Answer", "Ns"} : \A sig \in Range(GivenMsg[sec]) :
                           ~(VerifiedSig(sig, GivenMsg[sec]) /\ IsSubDomain(top.zone, sig.owner))
            /\ Returned({"resolveNS"}) =>
                  /\ v.err # nil => ret.flattened = <<>>
                  /\ v.err = nil =>
                        ret.flattened \in {v.msg.Answer, v.msg.Ns \o v.msg.Extra}

\* Verify returned Secure=false without error for a response whose only
\* signature is made with the downgradable key over another rrset than the
\* one in the answer, and resolveNS hands the unverified answer on
C13_Witness ==
    /\ Returned({"resolveNS"})
    /\ ~ret.val.secure
    /\ ret.val.err = nil
    /\ Len(ret.flattened) = 3
    /\ ret.flattened = top.Answer
    /\ \A i \in DOMAIN ret.flattened : ~Covered(ret.flattened[i], top.Answer)
    /\ \E i \in DOMAIN ret.flattened :
          ret.flattened[i].rtype = "A" /\ ret.flattened[i].data = "ip2"

(***************************************************************************)
(* The flattener's DS-without-delegation rule.                             *)
(***************************************************************************)
\* rrs holds a record of the type t
HasType(rrs, t) == \E i \in 1..Len(rrs) : rrs[i].rtype = t

\* flatten has just returned for a list with a DS record and no NS record
DSWithoutNS == ret.from = "flatten" /\ HasType(ret.frame.rrs, "DS") /\ ~HasType(ret.frame.rrs, "NS")

errDSNoDelegation == <<"error DS with no delegations">>

(***************************************************************************)
(* C21 (as written): flatten returns an error and no records for every     *)
(* list that holds a DS record and no NS record, with or without CNAMEs    *)
(* and whatever the incoming Secure bit.  Refuted: with Secure false the   *)
(* DS records are dropped first and the list comes back as a leaf result,  *)
(* and a list with CNAMEs takes the CNAME branch.                          *)
(***************************************************************************)
C21_DSWithoutNSAlwaysFails ==
    DSWithoutNS => ret.val.Err # nil /\ ret.val.Records = <<>>

(***************************************************************************)
(* C21 (amended): for a list with a DS record and no NS record, flatten    *)
(* running at depth <= 10 returns the DS-without-delegation error and no   *)
(* records exactly when the list is Secure and holds no CNAME; when the    *)
(* list is not Secure and holds no CNAME the whole list, DS records        *)
(* included, is returned without error and Secure false; when the list     *)
(* holds a CNAME the result is the CNAME branch's.                         *)
(***************************************************************************)
C21_DSWithoutDelegation ==
    (DSWithoutNS /\ ret.frame.depth <= MaxDepth) =>
        LET f == ret.frame
        IN  /\ (f.secure /\ ~HasType(f.rrs, "CNAME")) =>
                  /\ ret.val = DNSResult(<<>>, FALSE, errDSNoDelegation)
                  /\ f.pc = "enter"
            /\ (~f.secure /\ ~HasType(f.rrs, "CNAME")) =>
                  /\ ret.val = DNSResult(f.rrs, FALSE, nil)
                  /\ f.pc = "enter"
            /\ HasType(f.rrs, "CNAME") =>
                  /\ f.pc = "wait"
                  /\ ret.val.Err # errDSNoDelegation

\* a secure response of a name server with a DS record and no NS record has
\* just been refused
C21_Witness ==
    /\ DSWithoutNS
    /\ ret.frame.secure
    /\ ret.frame.depth > 0
    /\ ret.val.Err = errDSNoDelegation

\* flatten returned a DS record in an insecure leaf list
C21_InsecureLeaf ==
    DSWithoutNS /\ ~ret.frame.secure /\ ret.val.Err = nil /\ HasType(ret.val.Records, "DS")

\* flatten resolved a list with a DS record through its CNAME
C21_ViaCNAME ==
    DSWithoutNS /\ HasType(ret.frame.rrs, "CNAME") /\ ret.val.Err = nil /\ ret.val.Records # <<>>

(***************************************************************************)
(* The root lookup of the extension records.                               *)
(***************************************************************************)
\* the error lookupExtensions makes of the root endpoint's response r, or nil
RootLookupError(r) ==
    IF r.err # nil THEN r.err
    ELSE IF r.Rcode # RcodeSuccess THEN <<"hip-5 lookup failed with rcode">>
    ELSE IF r.Truncated THEN <<"response truncated">>
    ELSE nil

(***************************************************************************)
(* C22: when the root NS lookup for the TLD fails at transport level,      *)
(* comes back with an RCODE other than Success or comes back truncated,    *)
(* the activation that asked calls no handler and returns the wrapped      *)
(* lookup error with no records and Secure false, not the SERVFAIL result  *)
(* the stub gave before.                                                   *)
(***************************************************************************)
C22_RootLookupFailure ==
    \A id \in 1..nact :
       \A i \in EventsOf("root", id) :
          LET e == RootLookupError(exchangeRoot(log[i].name))
          IN  e # nil =>
                /\ EventsOf("handler", id) = {}
                /\ \A j \in Pos : j > i => log[j].id # id
                /\ (QueryReturned /\ ret.frame.id = id) =>
                      /\ ret.val = DNSResult(<<>>, FALSE,
                                             Wrap("checking for hip-5 records failed", e))
                      /\ ret.val # ret.frame.res
                      /\ IsServFail(ret.frame.res)

\* the root endpoint refused the lookup of a TLD whose NS record names a
\* registered handler, and the query has returned
C22_Witness ==
    /\ Done
    /\ top.name = <<"a", "refused", Root>>
    /\ <<"_example">> \in handlers
    /\ EventsOf("root", 1) # {}
    /\ ret.val.Err = <<"checking for hip-5 records failed", "hip-5 lookup failed with rcode">>

\* the same for a truncated response and for a transport error
C22_Truncated ==
    Done /\ top.name = <<"a", "trunc", Root>> /\ <<"_example">> \in handlers
         /\ ret.val.Err = <<"checking for hip-5 records failed", "response truncated">>

C22_Transport ==
    Done /\ top.name = <<"a", "down", Root>>
         /\ ret.val.Err = <<"checking for hip-5 records failed", "i/o timeout">>

(***************************************************************************)
(* VerifyDNSKeys.  A DNSKEY carries its flags, protocol and algorithm, the *)
(* identity of its key pair (id) and whether shouldDowngradeKey holds for  *)
(* it; its key tag is the checksum of these fields.  A digest is the       *)
(* material it was computed over and the case it is written in.            *)
(***************************************************************************)
ErrNoDNSKEY == <<"no valid dnskey records found">>

\* the sum of the 16-bit words of a public key
PublicKeySum(id) ==
    CASE id = "k1" -> 1000
      [] id = "k2" -> 2000
      [] id = "k3" -> 3000
      [] id = "k4" -> 1001
      [] OTHER -> 4000

\* key.KeyTag(): the checksum of the key's rdata
KeyTagOf(flags, protocol, algorithm, id) ==
    (flags + protocol * 256 + algorithm + PublicKeySum(id)) % 65536

\* a DNSKEY record with its fields
DNSKEYOf(owner, flags, protocol, algorithm, id, weak) ==
    RR(owner, "DNSKEY", NoName,
       [Flags |-> flags, Protocol |-> protocol, Algorithm |-> algorithm, id |-> id,
        weak |-> weak, KeyTag |-> KeyTagOf(flags, protocol, algorithm, id)])

\* key.ToDS(digestType): the digest over the owner name and the rdata, or
\* nil for a digest type the library has no hash for
ToDS(key, digestType) ==
    IF digestType \notin {1, SHA256, SHA384} THEN nil
    ELSE DSRecord(key.owner, key.data.KeyTag, key.data.Algorithm, digestType,
                  [upper |-> FALSE,
                   of |-> <<digestType, ToLowerName(key.owner), key.data.Flags,
                            key.data.Protocol, key.data.Algorithm, key.data.id>>])

\* strings.EqualFold on two digests
DigestEqualFold(a, b) == a.of = b.of

\* a selection that does not compare the digests
matchesDSByTag(ds, rr) ==
    /\ rr.rtype = "DNSKEY"
    /\ rr.data.Protocol = 3
    /\ rr.data.Flags \in {256, 257}
    /\ rr.data.Algorithm = ds.data.Algorithm
    /\ rr.data.KeyTag = ds.data.KeyTag

\* VerifyDNSKeys: the answer record rr is a key the DS record ds vouches for
matchesDS(ds, rr) ==
    /\ rr.rtype = "DNSKEY"
    /\ rr.data.Protocol = 3
    /\ rr.data.Flags \in {256, 257}
    /\ rr.data.Algorithm = ds.data.Algorithm
    /\ rr.data.KeyTag = ds.data.KeyTag
    /\ ToDS(rr, ds.data.DigestType) # nil
    /\ DigestEqualFold(ToDS(rr, ds.data.DigestType).data.Digest, ds.data.Digest)

\* the map m with key stored under tag
MapPut(m, tag, key) == [k \in DOMAIN m \cup {tag} |-> IF k = tag THEN key ELSE m[k]]

\* VerifyDNSKeys: the loop over msg.Answer for one DS record, from index j
RECURSIVE matchAnswerFrom(_, _, _, _)
matchAnswerFrom(ds, answer, j, matchingKeys) ==
    IF j > Len(answer) THEN matchingKeys
    ELSE matchAnswerFrom(ds, answer, j + 1,
            IF matchesDS(ds, answer[j])
                THEN MapPut(matchingKeys, answer[j].data.KeyTag, answer[j])
                ELSE matchingKeys)

\* VerifyDNSKeys: the loop over dsSet from index i on
RECURSIVE matchDSFrom(_, _, _, _)
matchDSFrom(dsSet, answer, i, matchingKeys) ==
    IF i > Len(dsSet) THEN matchingKeys
    ELSE matchDSFrom(dsSet, answer, i + 1,
            matchAnswerFrom(dsSet[i], answer, 1, matchingKeys))

\* VerifyDNSKeys: the matched keys that are not downgradable
validKeys(matchingKeys) ==
    [tag \in {k \in DOMAIN matchingKeys : ~shouldDowngradeKey(matchingKeys[k])} |->
        matchingKeys[tag]]

\* VerifyDNSKeys: the DNSKEYs of the pruned answer from index i on, stored
\* under their key tags
RECURSIVE trustedKeysFrom(_, _, _)
trustedKeysFrom(answer, i, trusted) ==
    IF i > Len(answer) THEN trusted
    ELSE trustedKeysFrom(answer, i + 1,
            IF answer[i].rtype = "DNSKEY"
                THEN MapPut(trusted, answer[i].data.KeyTag, answer[i])
                ELSE trusted)

\* the result of VerifyDNSKeys: a key map (nil and empty alike <<>>) and an
\* error, with the message as it is left
KeysResult(keys, err, msg) == [keys |-> keys, err |-> err, msg |-> msg]

\* VerifyDNSKeys after verifySignatures returned v
keysAfterSignatures(v) ==
    IF v.err # nil THEN KeysResult(<<>>, v.err, v.msg)
    ELSE IF ~v.secure THEN KeysResult(<<>>, nil, v.msg)
    ELSE IF Len(v.msg.Answer) = 0 THEN KeysResult(<<>>, ErrNoDNSKEY, v.msg)
    ELSE KeysResult(trustedKeysFrom(v.msg.Answer, 1, <<>>), nil, v.msg)

\* a VerifyDNSKeys that takes the keys from the answer as it came
keysOfValidUnpruned(zone, msg, valid, t) ==
    IF valid = <<>> THEN KeysResult(<<>>, nil, msg)
    ELSE keysAfterSignatures(
            [verifySignatures(zone, zone, msg, valid, t) EXCEPT !.msg.Answer = msg.Answer])

\* VerifyDNSKeys once the strength filter left the keys valid
keysOfValid(zone, msg, valid, t) ==
    IF valid = <<>> THEN KeysResult(<<>>, nil, msg)
    ELSE keysAfterSignatures(verifySignatures(zone, zone, msg, valid, t))

\* VerifyDNSKeys once the DS records selected the keys matching
keysOfMatching(zone, msg, matching, t) ==
    IF matching = <<>> THEN KeysResult(<<>>, ErrNoDNSKEY, msg)
    ELSE keysOfValid(zone, msg, validKeys(matching), t)

\* a VerifyDNSKeys that goes on without a usable DS record
noUsableDSNever(dsValues) == FALSE

\* VerifyDNSKeys: len(dsSet) == 0
noUsableDS(dsValues) == dsValues = {}

\* VerifyDNSKeys(zone, msg, parentDSSet, t, minKeySize): the results it may
\* give, one for each order in which filterDS may return the DS records
dnssecVerifyDNSKeys(zone, msg, parentDSSet, t) ==
    LET f == filterDS(zone, parentDSSet)
    IN  IF f.err # nil THEN {KeysResult(<<>>, f.err, msg)}
        ELSE IF noUsableDS(f.values) THEN {KeysResult(<<>>, nil, msg)}
        ELSE {keysOfMatching(zone, msg, matchDSFrom(dsSet, msg.Answer, 1, <<>>), t) :
                 dsSet \in Orders(f.values)}

(***************************************************************************)
(* VerifyDNSKeys run on its own, and resolveNS from the answer of          *)
(* queryDNSKeys on: the zone z. publishes a DNSKEY set made of the keys    *)
(* below, signed by some of them; the parent's DS set vouches for some.    *)
(***************************************************************************)
\* largest DNSKEY set tried
MaxKeySet == 3

KSK == DNSKEYOf(VZone, 257, 3, ECDSAP256SHA256, "k1", FALSE)

\* an RSA key signing key below the minimum size
KSKWeak == DNSKEYOf(VZone, 257, 3, RSASHA256, "k3", TRUE)

\* an RSA zone signing key below the minimum size
ZSKWeak == DNSKEYOf(VZone, 256, 3, RSASHA256, "k2", TRUE)

\* the key pair of KSK published with another protocol
BadProtocol == DNSKEYOf(VZone, 257, 2, ECDSAP256SHA256, "k1", FALSE)

\* a key that is neither a zone key nor a secure entry point
NoFlags == DNSKEYOf(VZone, 0, 3, ECDSAP256SHA256, "k5", FALSE)

\* another key whose rdata sums up to the key tag of KSK
Twin == DNSKEYOf(VZone, 256, 3, ECDSAP256SHA256, "k4", FALSE)

\* a key of the child zone c.z.
ChildKey == DNSKEYOf(VChild, 257, 3, ECDSAP256SHA256, "k6", FALSE)

KeyPool == {KSK, KSKWeak, ZSKWeak, BadProtocol, NoFlags, Twin, ChildKey}

\* the parent's DS record for key, its digest written in upper case
DSOf(key, digestType) ==
    LET ds == ToDS(key, digestType)
    IN  [ds EXCEPT !.data.Digest.upper = TRUE]

\* the DS sets tried
KeyDSSets ==
    LET other == [DSOf(KSK, SHA256) EXCEPT !.data.Digest = DSOf(KSKWeak, SHA256).data.Digest]
        foreign == [DSOf(KSK, SHA256) EXCEPT !.owner = <<"o", Root>>]
    IN  {<<DSOf(KSK, SHA256)>>,
         <<DSOf(KSK, 1)>>,
         <<DSOf(KSK, 1), [DSOf(KSK, SHA256) EXCEPT !.data.Algorithm = 5]>>,
         <<DSOf(KSKWeak, SHA384)>>,
         <<DSOf(KSKWeak, SHA256), DSOf(ZSKWeak, SHA256)>>,
         <<DSOf(KSK, SHA256), DSOf(KSKWeak, SHA256)>>,
         <<other>>,
         <<DSOf(Twin, SHA256)>>,
         <<DSOf(BadProtocol, SHA256)>>,
         <<DSOf(NoFlags, SHA384)>>,
         <<DSOf(KSK, SHA384), foreign>>}

\* a signature by key over the rrset, valid from inception to expiration
SignedBy(key, owner, typeCovered, inception, expiration, over) ==
    RRSIG(owner, typeCovered, key.data.KeyTag, key.owner, CountLabel(owner),
          inception, expiration, key.data.id, over)

\* the signatures a DNSKEY response may carry over the zone's keys among
\* keys, and the signed address record it may carry besides
KeySigChoices == {"none", "ksk", "weak", "ksk+weak", "expired", "twin", "address"}

KeySigs(choice, keys) ==
    LET addr == A(VZone, "ip1")
        zoneKeys == {k \in Range(keys) : k.owner = VZone}
    IN  CASE choice = "ksk" -> <<SignedBy(KSK, VZone, "DNSKEY", Now - 1, Now + 1, zoneKeys)>>
          [] choice = "weak" ->
                <<SignedBy(KSKWeak, VZone, "DNSKEY", Now - 1, Now + 1, zoneKeys)>>
          [] choice = "ksk+weak" ->
                <<SignedBy(KSKWeak, VZone, "DNSKEY", Now - 1, Now + 1, zoneKeys),
                  SignedBy(KSK, VZone, "DNSKEY", Now - 1, Now + 1, zoneKeys)>>
          [] choice = "expired" ->
                <<SignedBy(KSK, VZone, "DNSKEY", Now - 2, Now - 1, zoneKeys)>>
          [] choice = "twin" ->
                <<SignedBy(Twin, VZone, "DNSKEY", Now - 1, Now + 1, zoneKeys)>>
          [] choice = "address" ->
                <<addr, SignedBy(KSK, VZone, "A", Now - 1, Now + 1, {addr})>>
          [] OTHER -> <<>>

\* the DNSKEY response of a call
KeyMsg(in) ==
    Msg(nil, RcodeSuccess, FALSE, in.keys \o KeySigs(in.sigs, in.keys), <<>>, <<>>, "")

\* the responses to the question (q.c.z., A) that resolveNS may hold
SubResponses ==
    LET a1 == A(VQName, "ip1")
        nsC == NS(VChild, <<"ns", "test", Root>>)
    IN  {Reply(<<a1>>, <<>>, <<>>, ""),
         Reply(<<a1, SignedBy(KSK, VQName, "A", Now - 1, Now + 1, {a1})>>, <<>>, <<>>, ""),
         Reply(<<>>, <<nsC>>, <<A(<<"ns", "test", Root>>, "ip1")>>, "")}

InitKeys ==
    /\ synced = TRUE
    /\ handlers = {}
    /\ stack = <<>>
    /\ ret = NoRet
    /\ top \in [fn : {"VerifyDNSKeys"}, zone : {VZone}, qname : {VQName}, qtype : {"A"},
                keys : {k \in SeqsUpTo(KeyPool, MaxKeySet) :
                           \A i, j \in DOMAIN k : i < j => k[i] # k[j]},
                sigs : KeySigChoices, ds : KeyDSSets]
    /\ log = <<>>
    /\ nact = 0

\* queryDNSKeys: dnssec.VerifyDNSKeys(delegatedName, msg, ds, time.Now(), 2048)
VerifyDNSKeysCall ==
    /\ ret = NoRet
    /\ \E r \in dnssecVerifyDNSKeys(top.zone, KeyMsg(top), top.ds, Now) :
          ret' = [from |-> "VerifyDNSKeys", val |-> r]
    /\ UNCHANGED <<synced, handlers, stack, top, log, nact>>

\* resolveNS once the keys are known and Verify (if called) returned v: the
\* error, or the call of flatten
resolveNSVerified(signed, v, msg) ==
    IF signed /\ v.err # nil
        THEN [from |-> "resolveNS", signed |-> signed, err |-> v.err, secure |-> FALSE,
              flattened |-> <<>>, extra |-> <<>>]
    ELSE LET m == IF signed THEN v.msg ELSE msg
         IN  [from |-> "resolveNS", signed |-> signed, err |-> nil,
              secure |-> signed /\ v.secure,
              flattened |-> IF Len(m.Answer) > 0 THEN m.Answer ELSE m.Ns,
              extra |-> IF Len(m.Answer) > 0 THEN <<>> ELSE m.Extra]

\* resolveNS after queryDNSKeys, holding the response msg to its question
resolveNSWithKeys(k, msg, zone, qname, qtype) ==
    IF k.err # nil
        THEN [from |-> "resolveNS", signed |-> FALSE, err |-> k.err, secure |-> FALSE,
              flattened |-> <<>>, extra |-> <<>>]
    ELSE resolveNSVerified(k.keys # <<>>,
                           dnssecVerify(msg, zone, qname, qtype, k.keys, Now), msg)

\* resolveNS from the return of queryDNSKeys to the call of flatten
ResolveNSAfterKeys ==
    /\ Returned({"VerifyDNSKeys"})
    /\ \E msg \in SubResponses :
          /\ ret' = resolveNSWithKeys(ret.val, msg, top.zone, top.qname, top.qtype)
          /\ log' = <<ret, msg>>
    /\ UNCHANGED <<synced, handlers, stack, top, nact>>

NextKeys ==
    \/ VerifyDNSKeysCall
    \/ ResolveNSAfterKeys

SpecKeys == InitKeys /\ [][NextKeys]_vars

\* VerifyDNSKeys has just returned
KeysReturned == ret.from = "VerifyDNSKeys"

\* the parent's DS records that are for the zone and of a supported
\* algorithm and digest type
UsableDS ==
    {d \in Range(top.ds) :
        /\ d.data.Algorithm \in {RSASHA256, RSASHA512, ECDSAP256SHA256, ECDSAP384SHA384, ED25519}
        /\ d.data.DigestType \in {SHA256, SHA384}}

\* the DS set passes filterDS and leaves a DS record to match
DSLeft == (\A d \in Range(top.ds) : EqualFold(top.zone, d.owner)) /\ UsableDS # {}

\* the DS record d is the digest of the key k, a zone key of protocol 3
Vouches(d, k) ==
    /\ k.data.Protocol = 3 /\ k.data.Flags \in {256, 257}
    /\ d.data.Algorithm = k.data.Algorithm
    /\ d.data.KeyTag = KeyTagOf(k.data.Flags, k.data.Protocol, k.data.Algorithm, k.data.id)
    /\ d.data.Digest.of = <<d.data.DigestType, ToLowerName(k.owner), k.data.Flags,
                            k.data.Protocol, k.data.Algorithm, k.data.id>>

\* the answer DNSKEYs a usable DS record vouches for
DSMatched == {k \in Range(top.keys) : \E d \in UsableDS : Vouches(d, k)}

(***************************************************************************)
(* C23 (as written): with a non-empty filtered DS set VerifyDNSKeys        *)
(* returns NoDNSKEY whenever no candidate key remains: when no answer      *)
(* DNSKEY matches a DS record, and when every DS-matched key is removed by *)
(* the strength filter.  Refuted in its second case: when the strength     *)
(* filter leaves no key the result is no key and no error.                 *)
(***************************************************************************)
C23_NoCandidateIsNoDNSKEY ==
    (KeysReturned /\ DSLeft /\ \A k \in DSMatched : k.data.weak) =>
        ret.val.err = ErrNoDNSKEY /\ ret.val.keys = <<>>

(***************************************************************************)
(* C23 (amended): with a non-empty filtered DS set VerifyDNSKeys returns   *)
(* NoDNSKEY and no key when no answer DNSKEY matches a DS record; when     *)
(* some do and the strength filter removes every one of them it returns no *)
(* key and no error, and leaves the message as it was.                     *)
(***************************************************************************)
C23_NoDNSKEY ==
    (KeysReturned /\ DSLeft) =>
        /\ DSMatched = {} => ret.val.err = ErrNoDNSKEY /\ ret.val.keys = <<>>
        /\ (DSMatched # {} /\ \A k \in DSMatched : k.data.weak) =>
              /\ ret.val.err = nil /\ ret.val.keys = <<>>
              /\ ret.val.msg = KeyMsg(top)

\* the DS set vouches only for a weak RSA key of a signed key set, which
\* comes back as no key and no error
C23_Witness ==
    /\ KeysReturned /\ DSLeft
    /\ DSMatched = {KSKWeak}
    /\ top.sigs = "weak"
    /\ ret.val.err = nil /\ ret.val.keys = <<>>

\* a DS record with the key tag and algorithm of a key of the answer and
\* another digest leaves VerifyDNSKeys without a key
C23_NoMatch ==
    /\ KeysReturned /\ DSLeft /\ DSMatched = {}
    /\ \E k \in Range(top.keys), d \in UsableDS :
          k.data.KeyTag = d.data.KeyTag /\ k.data.Algorithm = d.data.Algorithm
    /\ ret.val.err = ErrNoDNSKEY

\* the DS records are all for the zone and none is of a supported algorithm
\* and digest type
NoDSLeft == (\A d \in Range(top.ds) : EqualFold(top.zone, d.owner)) /\ UsableDS = {}

\* resolveNS has just called flatten, or returned an error
AfterKeys == ret.from = "resolveNS"

(***************************************************************************)
(* C24: when filtering leaves no DS record (only unsupported algorithms or *)
(* digest types), VerifyDNSKeys returns an empty key set without error,    *)
(* and resolveNS then does not call Verify, sets Secure to false and hands *)
(* the response to its question to flatten as it came: the Answer, or, if  *)
(* it is empty, the Authority with the Additional section as glue.         *)
(***************************************************************************)
C24_UnsupportedDSIsInsecure ==
    NoDSLeft =>
        /\ KeysReturned =>
              ret.val.keys = <<>> /\ ret.val.err = nil /\ ret.val.msg = KeyMsg(top)
        /\ AfterKeys =>
              /\ ~ret.signed /\ ~ret.secure /\ ret.err = nil
              /\ ret.flattened = (IF Len(log[2].Answer) > 0 THEN log[2].Answer ELSE log[2].Ns)
              /\ ret.extra = (IF Len(log[2].Answer) > 0 THEN <<>> ELSE log[2].Extra)
              /\ ret.flattened # <<>>

\* a signed answer of a zone whose only DS record has an unsupported digest
\* type went to flatten unvalidated, the key set being signed by the key of
\* that DS record
C24_Witness ==
    /\ AfterKeys /\ NoDSLeft
    /\ top.ds = <<DSOf(KSK, 1)>>
    /\ KSK \in Range(top.keys) /\ top.sigs = "ksk"
    /\ \E i \in DOMAIN ret.flattened : ret.flattened[i].rtype = "RRSIG"
    /\ ~ret.secure

\* the keys VerifyDNSKeys returned
TrustedKeys == {ret.val.keys[tag] : tag \in DOMAIN ret.val.keys}

\* every returned key is a DNSKEY left in the pruned answer and is stored
\* under its key tag, and every DNSKEY left in the answer has its tag in
\* the map
FromPrunedAnswer ==
    KeysReturned =>
        /\ \A tag \in DOMAIN ret.val.keys :
              LET k == ret.val.keys[tag]
              IN  /\ k.rtype = "DNSKEY"
                  /\ k \in Range(ret.val.msg.Answer) /\ k \in Range(top.keys)
                  /\ tag = KeyTagOf(k.data.Flags, k.data.Protocol, k.data.Algorithm, k.data.id)
        /\ (ret.val.keys # <<>>) =>
              \A k \in Range(ret.val.msg.Answer) :
                 k.rtype = "DNSKEY" => k.data.KeyTag \in DOMAIN ret.val.keys

\* every returned key is a zone key of protocol 3
ZoneKeysOnly ==
    KeysReturned =>
        \A k \in TrustedKeys : k.data.Protocol = 3 /\ k.data.Flags \in {256, 257}

\* no returned key is downgradable
StrongKeysOnly == KeysReturned => \A k \in TrustedKeys : ~k.data.weak

(***************************************************************************)
(* C25 (as written): every key of the trusted key set VerifyDNSKeys        *)
(* returns is a DNSKEY that remained in the Answer after signature         *)
(* pruning, is stored under its own computed key tag, has Protocol 3 and   *)
(* Flags 256 or 257, and is not downgradable.  Refuted: the protocol, the  *)
(* flags and the strength are tested for the keys a DS record matches      *)
(* only, and every DNSKEY of the key sets those keys signed is returned.   *)
(***************************************************************************)
C25_TrustedKeysWellFormed == FromPrunedAnswer /\ ZoneKeysOnly /\ StrongKeysOnly

\* the answer holds a signature over the DNSKEY set of the zone, valid now,
\* made by the key s
SignsKeySet(s) ==
    \E r \in Range(KeyMsg(top).Answer) :
       /\ r.rtype = "RRSIG" /\ r.data.TypeCovered = "DNSKEY"
       /\ r.data.by = s.data.id /\ r.data.KeyTag = s.data.KeyTag
       /\ r.data.Inception <= Now /\ Now <= r.data.Expiration

(***************************************************************************)
(* C25 (amended): every key of the trusted key set VerifyDNSKeys returns   *)
(* is a DNSKEY that remained in the Answer after signature pruning and is  *)
(* stored under its own computed key tag, and every DNSKEY that remained   *)
(* has its tag in the set; the set is not empty only if a key that a DS    *)
(* record matches (Protocol 3, Flags 256 or 257) and that is not           *)
(* downgradable signed a key set of the answer.  The returned keys         *)
(* themselves are of any protocol, flags and strength.                     *)
(***************************************************************************)
C25_TrustedKeys ==
    /\ FromPrunedAnswer
    /\ (KeysReturned /\ ret.val.keys # <<>>) =>
          /\ DSLeft
          /\ \E s \in DSMatched : ~s.data.weak /\ SignsKeySet(s)

\* the DS record vouches for KSK, KSK signed the key set, and the trusted
\* keys include a key without the zone-key flag or a downgradable key but
\* not the key of the child zone, which the signature does not cover
C25_Witness ==
    /\ KeysReturned
    /\ DSMatched = {KSK}
    /\ TrustedKeys \in {{KSK, NoFlags}, {KSK, ZSKWeak}}
    /\ ChildKey \in Range(top.keys) /\ ChildKey \notin TrustedKeys

(***************************************************************************)
(* The answer check.                                                       *)
(***************************************************************************)
\* the records of the given Answer at qname that are of the type qtype or
\* CNAME or are signatures over one of these types
ReducedAnswer ==
    LET Kept(r) == /\ EqualFold(top.qname, r.owner)
                   /\ \/ r.rtype \in {top.qtype, "CNAME"}
                      \/ r.rtype = "RRSIG" /\ r.data.TypeCovered \in {top.qtype, "CNAME"}
    IN  SelectSeq(GivenMsg.Answer, Kept)

\* a signature kept in the reduced answer has fewer labels than qname
WildcardAnswer ==
    \E r \in Range(ReducedAnswer) :
       r.rtype = "RRSIG" /\ r.data.Labels < CountLabel(top.qname)

\* an NSEC record of the given Authority covers qname
QNameCovered ==
    \E r \in Range(GivenMsg.Ns) :
       r.rtype = "NSEC" /\ covers(r.owner, r.data.NextDomain, top.qname)

(***************************************************************************)
(* C26: verifyAnswer returns Secure=true only if the Answer reduced to the *)
(* records at qname of type qtype or CNAME and the RRSIGs at qname over    *)
(* these types is not empty and, when a retained RRSIG has fewer labels    *)
(* than qname, some NSEC in Authority covers qname; otherwise it fails     *)
(* with "empty answer" or "bad wildcard substitution".  Refuted by the     *)
(* code for the query type RRSIG: the signatures are then retained as      *)
(* records of the type asked for and their label count is not looked at.   *)
(***************************************************************************)
C26_VerifyAnswer ==
    ret.from = "verifyAnswer" =>
        /\ ret.val.secure => ReducedAnswer # <<>> /\ (WildcardAnswer => QNameCovered)
        /\ ~ret.val.secure =>
              ret.val.err \in {<<"empty answer">>, <<"bad wildcard substitution">>}

\* the same for the query types other than RRSIG, with the converse
VerifyAnswerOtherTypes ==
    (ret.from = "verifyAnswer" /\ top.qtype # "RRSIG") =>
        /\ ret.val.secure <=> (ReducedAnswer # <<>> /\ (WildcardAnswer => QNameCovered))
        /\ ret.val.secure => ret.val.msg.Answer = ReducedAnswer /\ ret.val.err = nil
        /\ ~ret.val.secure =>
              ret.val.err = (IF ReducedAnswer = <<>> THEN <<"empty answer">>
                             ELSE <<"bad wildcard substitution">>)

\* a wildcard answer was accepted with a covering NSEC, and refused without
WildcardProved ==
    /\ ret.from = "verifyAnswer" /\ top.qtype = "A"
    /\ WildcardAnswer /\ QNameCovered /\ ret.val.secure

WildcardRefused ==
    /\ ret.from = "verifyAnswer" /\ top.qtype = "A"
    /\ WildcardAnswer /\ ~QNameCovered /\ ret.val.err = <<"bad wildcard substitution">>

\* Verify as a whole accepts the wildcard signature asked for as RRSIG
WildcardSigSecure ==
    /\ ret.from = "Verify" /\ top.qtype = "RRSIG"
    /\ WildcardAnswer /\ ~QNameCovered /\ ret.val.secure

(***************************************************************************)
(* C27: the NSEC at qname whose bitmap holds the qtype or CNAME.           *)
(***************************************************************************)
\* what verifySignatures makes of the response in top
SignaturesOfTop == verifySignatures(top.zone, top.qname, MsgOf(top), top.keys, Now)

\* Verify has returned what verifyNoData made of the message that the
\* verification of the signatures left; ret.val.msg is that message
NoDataReturned ==
    /\ ret # NoRet
    /\ ret.from = "Verify"
    /\ IsFqdn(top.zone)
    /\ IsFqdn(top.qname)
    /\ SignaturesOfTop.err = nil
    /\ SignaturesOfTop.secure
    /\ ret.val.msg.Rcode = RcodeSuccess
    /\ ret.val.msg.Answer = <<>>

\* the record at index i of the authority section is an NSEC at qname
NSECAtQName(i) ==
    /\ ret.val.msg.Ns[i].rtype = "NSEC"
    /\ EqualFold(ret.val.msg.Ns[i].owner, top.qname)

\* the record at index i is an NSEC at qname whose bitmap holds the qtype or
\* CNAME
TypeExistsAt(i) ==
    /\ NSECAtQName(i)
    /\ \E j \in DOMAIN ret.val.msg.Ns[i].data.TypeBitMap :
           ret.val.msg.Ns[i].data.TypeBitMap[j] \in {top.qtype, "CNAME"}

\* the record at index i ends the scan of the authority section: an NSEC3 in
\* bailiwick, a DS, an NSEC of another owner, or an NSEC at qname whose next
\* name is in the zone
Decides(i) ==
    \/ ret.val.msg.Ns[i].rtype = "NSEC3" /\ IsSubDomain(top.zone, ret.val.msg.Ns[i].owner)
    \/ ret.val.msg.Ns[i].rtype = "DS"
    \/ /\ ret.val.msg.Ns[i].rtype = "NSEC"
       /\ \/ ~EqualFold(ret.val.msg.Ns[i].owner, top.qname)
          \/ IsSubDomain(top.zone, ret.val.msg.Ns[i].data.NextDomain)

\* the index of the first record that ends the scan, 0 when there is none
FirstDecisive ==
    IF \E i \in DOMAIN ret.val.msg.Ns : Decides(i)
        THEN CHOOSE i \in DOMAIN ret.val.msg.Ns :
                 Decides(i) /\ \A j \in 1..(i - 1) : ~Decides(j)
    ELSE 0

\* C27 as stated: verifyNoData never returns Secure = true for a message
\* whose authority section holds an NSEC at qname with the qtype or CNAME in
\* its bitmap, whatever the order of the records and the NSEC's next name
C27_TypeExistsNeverSecure ==
    (NoDataReturned /\ \E i \in DOMAIN ret.val.msg.Ns : TypeExistsAt(i))
        => ~ret.val.secure

\* C27, amended: an NSEC at qname with the qtype or CNAME in its bitmap fails
\* verifyNoData with "type exists" or "cname exists" when its next name is in
\* the zone and no NSEC3 in bailiwick, DS or NSEC record precedes it
C27_FirstTypeExists ==
    (NoDataReturned /\ FirstDecisive # 0 /\ TypeExistsAt(FirstDecisive))
        => /\ ~ret.val.secure
           /\ ret.val.err \in {<<"type exists">>, <<"cname exists">>}

\* a CNAME in the bitmap of the first deciding record, with a DS after it
C27_Witness ==
    /\ NoDataReturned
    /\ FirstDecisive # 0
    /\ TypeExistsAt(FirstDecisive)
    /\ ret.val.err = <<"cname exists">>
    /\ \E i \in DOMAIN ret.val.msg.Ns : i > FirstDecisive /\ ret.val.msg.Ns[i].rtype = "DS"

\* such an NSEC with a next name outside the zone is passed over, and the
\* NSEC after it proves the absence
SkippedTypeExists ==
    /\ NoDataReturned
    /\ ret.val.secure
    /\ \E i \in DOMAIN ret.val.msg.Ns :
           /\ TypeExistsAt(i)
           /\ ~IsSubDomain(top.zone, ret.val.msg.Ns[i].data.NextDomain)
           /\ \A j \in DOMAIN ret.val.msg.Ns : j # i => ~TypeExistsAt(j)

(***************************************************************************)
(* C28: the NSEC at qname whose bitmap holds DS.                           *)
(***************************************************************************)
\* the bitmap of the NSEC at index i holds the type t
InBitmap(i, t) ==
    \E j \in DOMAIN ret.val.msg.Ns[i].data.TypeBitMap : ret.val.msg.Ns[i].data.TypeBitMap[j] = t

\* verifyNoData has decided on an NSEC at qname
DecidedAtQName ==
    /\ NoDataReturned
    /\ FirstDecisive # 0
    /\ NSECAtQName(FirstDecisive)

\* the authority section holds an NS record
HasNS == \E i \in DOMAIN ret.val.msg.Ns : ret.val.msg.Ns[i].rtype = "NS"

\* C28: when the NSEC at qname that verifyNoData decides on lists DS in its
\* bitmap, verifyNoData fails, whether or not the authority section holds NS
\* records
C28_DSInBitmapFails ==
    (DecidedAtQName /\ InBitmap(FirstDecisive, "DS"))
        => ~ret.val.secure /\ ret.val.err # nil

\* with an NS record in the authority section the DS in the bitmap is a
\* failure
DSInBitmapWithNS ==
    (DecidedAtQName /\ InBitmap(FirstDecisive, "DS") /\ HasNS)
        => ~ret.val.secure /\ ret.val.err # nil

\* the failure "DS exists in NSEC bitmap" is reached
DSInBitmapRefused ==
    /\ DecidedAtQName
    /\ ret.val.err = <<"bad insecure delegation proof DS exists in NSEC bitmap">>

\* Secure = true on an NSEC at qname that lists DS, in an authority section
\* without NS records
DSInBitmapSecure ==
    /\ DecidedAtQName
    /\ InBitmap(FirstDecisive, "DS")
    /\ ~HasNS
    /\ ret.val.secure

(***************************************************************************)
(* C29: the NSEC at qname whose bitmap holds NS.                           *)
(***************************************************************************)
\* the authority section holds an NS record of the owner of the NSEC at
\* index i that is not the zone
CoOwnedNS(i) ==
    \E k \in DOMAIN ret.val.msg.Ns :
        /\ ret.val.msg.Ns[k].rtype = "NS"
        /\ EqualFold(ret.val.msg.Ns[k].owner, ret.val.msg.Ns[i].owner)
        /\ ~EqualFold(ret.val.msg.Ns[k].owner, top.zone)

\* every NS record of the authority section is of the owner of the NSEC at
\* index i and not of the zone
OnlyCoOwnedNS(i) ==
    \A k \in DOMAIN ret.val.msg.Ns :
        ret.val.msg.Ns[k].rtype = "NS"
            => /\ EqualFold(ret.val.msg.Ns[k].owner, ret.val.msg.Ns[i].owner)
               /\ ~EqualFold(ret.val.msg.Ns[k].owner, top.zone)

\* C29 as stated: when the NSEC at qname lists NS, verifyNoData returns
\* Secure = true only if the authority section holds an NS record of the
\* NSEC's owner that is not the zone, and fails without such a record
C29_NSInBitmapNeedsNS ==
    (DecidedAtQName /\ InBitmap(FirstDecisive, "NS") /\ ~CoOwnedNS(FirstDecisive))
        => ~ret.val.secure /\ ret.val.err # nil

\* C29, amended: when the NSEC at qname lists NS, verifyNoData returns
\* Secure = true exactly if the bitmap holds neither the qtype nor CNAME and
\* every NS record of the authority section is of the NSEC's owner, not of
\* the zone, and not accompanied by DS in the bitmap; an authority section
\* without NS records satisfies this.  Otherwise it fails with an error
C29_NSInBitmap ==
    (DecidedAtQName /\ InBitmap(FirstDecisive, "NS"))
        => /\ ret.val.secure
                <=> /\ ~TypeExistsAt(FirstDecisive)
                    /\ OnlyCoOwnedNS(FirstDecisive)
                    /\ HasNS => ~InBitmap(FirstDecisive, "DS")
           /\ ~ret.val.secure => ret.val.err # nil

\* the NSEC at the apex lists NS, the authority section holds no NS record,
\* and the absence is proved
C29_Witness ==
    /\ DecidedAtQName
    /\ InBitmap(FirstDecisive, "NS")
    /\ EqualFold(top.qname, top.zone)
    /\ ~HasNS
    /\ ret.val.secure

\* the referral to the owner of the NSEC is accepted
ReferralAccepted ==
    /\ DecidedAtQName
    /\ InBitmap(FirstDecisive, "NS")
    /\ CoOwnedNS(FirstDecisive)
    /\ ret.val.secure

\* the zone's own NS records are refused
BadReferral ==
    /\ DecidedAtQName
    /\ ret.val.err = <<"bad referral">>

(***************************************************************************)
(* C30: NSEC3 in bailiwick in a response without answer.                   *)
(***************************************************************************)
\* the record is an NSEC3 in the bailiwick of the zone in top
NSEC3InBailiwick(rr) == rr.rtype = "NSEC3" /\ IsSubDomain(top.zone, rr.owner)

\* Verify has returned for a NoError response without answer
NoAnswerVerified ==
    /\ ret # NoRet
    /\ ret.from = "Verify"
    /\ IsFqdn(top.zone)
    /\ IsFqdn(top.qname)
    /\ top.Rcode = RcodeSuccess
    /\ top.Answer = <<>>

\* the section ns holds an NSEC3 in bailiwick that no DS and no NSEC record
\* precedes
NSEC3First(ns) ==
    \E i \in DOMAIN ns :
        /\ NSEC3InBailiwick(ns[i])
        /\ \A j \in 1..(i - 1) : ns[j].rtype \notin {"DS", "NSEC"}

\* C30 as stated: a NoError response without answer whose authority section
\* holds an NSEC3 in bailiwick is reported Secure = false without error by
\* Verify, wherever the NSEC3 stands among the NSEC, DS and NS records
C30_NSEC3AlwaysDowngrades ==
    (NoAnswerVerified /\ \E i \in DOMAIN top.Ns : NSEC3InBailiwick(top.Ns[i]))
        => ~ret.val.secure /\ ret.val.err = nil

\* C30, amended: the response is reported Secure = false without error when
\* the signatures verify without error and, in the authority section left by
\* the verification, no DS and no NSEC record precedes the NSEC3
C30_NSEC3FirstDowngrades ==
    (NoAnswerVerified /\ SignaturesOfTop.err = nil
                      /\ NSEC3First(SignaturesOfTop.msg.Ns))
        => ~ret.val.secure /\ ret.val.err = nil

\* a verified NSEC3 ahead of a verified NSEC at qname: downgraded
C30_Witness ==
    /\ NoAnswerVerified
    /\ SignaturesOfTop.err = nil
    /\ SignaturesOfTop.secure
    /\ NSEC3First(SignaturesOfTop.msg.Ns)
    /\ \E i \in DOMAIN SignaturesOfTop.msg.Ns :
           /\ SignaturesOfTop.msg.Ns[i].rtype = "NSEC"
           /\ EqualFold(SignaturesOfTop.msg.Ns[i].owner, top.qname)
    /\ ~ret.val.secure
    /\ ret.val.err = nil

\* a verified NSEC at qname ahead of a verified NSEC3: Secure = true
NSECBeforeNSEC3 ==
    /\ NoAnswerVerified
    /\ ret.val.secure
    /\ \E i \in DOMAIN ret.val.msg.Ns : NSEC3InBailiwick(ret.val.msg.Ns[i])

\* a DS without NS ahead of a verified NSEC3: an error
DSBeforeNSEC3 ==
    /\ NoAnswerVerified
    /\ ret.val.err = <<"DS record exists without a delegation">>
    /\ \E i \in DOMAIN ret.val.msg.Ns : NSEC3InBailiwick(ret.val.msg.Ns[i])

(***************************************************************************)
(* C31: the two proofs of a name error.                                    *)
(***************************************************************************)
\* Verify has returned what verifyNameError made of the message that the
\* verification of the signatures left; ret.val.msg is that message
NameErrorReturned ==
    /\ ret # NoRet
    /\ ret.from = "Verify"
    /\ IsFqdn(top.zone)
    /\ IsFqdn(top.qname)
    /\ SignaturesOfTop.err = nil
    /\ SignaturesOfTop.secure
    /\ ret.val.msg.Rcode = RcodeNameError

\* the NSEC records verifyNameError scans
NSECsLeft == {i \in DOMAIN ret.val.msg.Ns : ret.val.msg.Ns[i].rtype = "NSEC"}

\* the NSEC at index i covers the name n
CoveredBy(i, n) ==
    covers(ret.val.msg.Ns[i].owner, ret.val.msg.Ns[i].data.NextDomain, n)

\* the name *.<qname minus its first k labels>
WildcardOf(k) ==
    <<"*">> \o SubSeq(Labels(top.qname), k + 1, Len(Labels(top.qname))) \o <<Root>>

\* some NSEC covers qname
NameProof == \E i \in NSECsLeft : CoveredBy(i, top.qname)

\* some NSEC covers a wildcard of an ancestor of qname inside the zone
WildcardProof ==
    \E i \in NSECsLeft : \E k \in 1..Len(Labels(top.qname)) :
        IsSubDomain(top.zone, WildcardOf(k)) /\ CoveredBy(i, WildcardOf(k))

\* C31: verifyNameError returns Secure = true iff some NSEC covers qname and
\* some NSEC covers a wildcard *.<qname minus its first i labels>, i >= 1,
\* inside the zone; otherwise it returns an error that names the missing
\* proof; the two proofs may come from one NSEC or from two
C31_NameErrorProofs ==
    NameErrorReturned
        => /\ ret.val.secure <=> (NameProof /\ WildcardProof)
           /\ ret.val.secure => ret.val.err = nil
           /\ ~NameProof => ret.val.err = <<"missing name proof">>
           /\ (NameProof /\ ~WildcardProof)
                  => ret.val.err = <<"missing wildcardProof proof">>

\* the two proofs by two NSEC records, neither of which gives both, the
\* wildcard being *.z.
C31_Witness ==
    /\ NameErrorReturned
    /\ ret.val.secure
    /\ \A i \in NSECsLeft : ~(CoveredBy(i, top.qname) /\ CoveredBy(i, WildcardOf(1)))
    /\ \A i \in NSECsLeft : ~CoveredBy(i, WildcardOf(1))
    /\ \E i \in NSECsLeft : CoveredBy(i, WildcardOf(2))

\* the two proofs by one NSEC
OneNSECProves ==
    /\ NameErrorReturned
    /\ ret.val.secure
    /\ Cardinality(NSECsLeft) = 1

\* the name is covered and no wildcard is
WildcardProofMissing ==
    /\ NameErrorReturned
    /\ NameProof
    /\ ret.val.err = <<"missing wildcardProof proof">>

\* a wildcard is covered and the name is not
NameProofMissing ==
    /\ NameErrorReturned
    /\ WildcardProof
    /\ ret.val.err = <<"missing name proof">>

(***************************************************************************)
(* shouldDowngradeKey on the octets of the key.  A public key is the       *)
(* base64 text of the record, given here by whether it decodes and by the  *)
(* octets it decodes to (RFC 3110: the length of the exponent in one octet *)
(* or, after a zero octet, in two; the exponent; the modulus).  The        *)
(* exponent is a uint64 in the code; here it is the pair of its upper and  *)
(* lower 16 bits (no exponent of more than four octets is ever read), so   *)
(* that no number passes 2^31.                                             *)
(***************************************************************************)
\* DefaultMinRSAKeySize
DefaultMinRSAKeySize == 2048

\* fromBase64(s): the octets and the error
fromBase64(s) ==
    IF s.valid THEN [buf |-> s.buf, err |-> nil]
    ELSE [buf |-> <<>>, err |-> <<"illegal base64 data">>]

\* big.Int.BitLen of the octet b
RECURSIVE BitLen8(_)
BitLen8(b) == IF b = 0 THEN 0 ELSE 1 + BitLen8(b \div 2)

\* pubkey.N.BitLen() of the modulus keybuf[modoff:]
ModulusBitLen(keybuf, modoff) ==
    (Len(keybuf) - modoff) * 8 + BitLen8(keybuf[modoff])

\* the loop expo <<= 8; expo |= v over keybuf[keyoff:modoff], from index i
\* on (indices from 1); expo is hi * 2^16 + lo
RECURSIVE exponentFrom(_, _, _, _)
exponentFrom(keybuf, i, modoff, expo) ==
    IF i >= modoff THEN expo
    ELSE exponentFrom(keybuf, i + 1, modoff,
                      [hi |-> (expo.hi * 256 + expo.lo \div 256) % 65536,
                       lo |-> (expo.lo * 256 + keybuf[i]) % 65536])

\* a test of the exponent against 1<<32 - 1
exponentTooLargeFor32(expo) == FALSE

\* expo > 1<<31 - 1
exponentTooLarge(expo) == expo.hi >= 32768

\* shouldDowngradeKey after the exponent length is read: keyoff and modoff
\* are the indices (from 1) of the first octet of the exponent and of the
\* modulus
downgradeParsed(keybuf, explen, keyoff, minKeySize) ==
    IF explen > 4 THEN TRUE
    ELSE IF explen = 0 \/ keybuf[keyoff] = 0 THEN FALSE
    ELSE IF \/ Len(keybuf) - (keyoff + explen - 1) < 64
            \/ Len(keybuf) - (keyoff + explen - 1) > 512
            \/ keybuf[keyoff + explen] = 0
        THEN FALSE
    ELSE IF exponentTooLarge(exponentFrom(keybuf, keyoff, keyoff + explen,
                                          [hi |-> 0, lo |-> 0]))
        THEN TRUE
    ELSE ModulusBitLen(keybuf, keyoff + explen) < minKeySize

\* shouldDowngradeKey after the key is decoded
downgradeDecoded(keybuf, minKeySize) ==
    IF Len(keybuf) < 1 + 1 + 64 THEN FALSE
    ELSE IF keybuf[1] = 0
        THEN downgradeParsed(keybuf, keybuf[2] * 256 + keybuf[3], 4, minKeySize)
    ELSE downgradeParsed(keybuf, keybuf[1], 2, minKeySize)

\* shouldDowngradeKey(k, minKeySize) on the algorithm and the public key
shouldDowngradeRSA(k, minKeySize) ==
    IF k.Algorithm # RSASHA512 /\ k.Algorithm # RSASHA256 THEN FALSE
    ELSE IF fromBase64(k.PublicKey).err # nil THEN FALSE
    ELSE downgradeDecoded(fromBase64(k.PublicKey).buf, minKeySize)

\* the octets of a key: the exponent exp with its length in the short or in
\* the long form, and a modulus of modLen octets that begins with modFirst
KeyBuf(long, exp, modFirst, modLen) ==
    (IF long THEN <<0, Len(exp) \div 256, Len(exp) % 256>> ELSE <<Len(exp)>>)
    \o exp
    \o [i \in 1..modLen |-> IF i = 1 THEN modFirst ELSE 255]

\* the exponents tried: 3, 65537, one with a leading zero, 2^31 - 1, 2^31,
\* 2^32 - 1, 2^32, a leading zero in five octets, and none
RSAExponents ==
    {<<3>>, <<1, 0, 1>>, <<0, 3>>, <<127, 255, 255, 255>>, <<128, 0, 0, 0>>,
     <<255, 255, 255, 255>>, <<1, 0, 0, 0, 0>>, <<0, 0, 0, 0, 3>>, <<>>}

\* the lengths of the modulus tried, in octets
RSAModulusLengths == {0, 63, 64, 128, 256, 512, 513}

\* the keys tried, each with what it was made of
RSAInputs ==
    {in \in {[fn |-> "shouldDowngradeKey", Algorithm |-> alg, minKeySize |-> m,
              long |-> long, exp |-> exp, modFirst |-> mf, modLen |-> ml,
              valid |-> v,
              PublicKey |-> [valid |-> v, buf |-> KeyBuf(long, exp, mf, ml)]] :
                 alg \in {RSASHA256, RSASHA512, ECDSAP256SHA256},
                 m \in {1024, DefaultMinRSAKeySize},
                 long \in BOOLEAN, exp \in RSAExponents,
                 mf \in {0, 1, 128}, ml \in RSAModulusLengths, v \in BOOLEAN} :
        in.long \/ in.exp # <<>>}

InitRSA ==
    /\ synced = TRUE
    /\ handlers = {}
    /\ stack = <<>>
    /\ ret = NoRet
    /\ log = <<>>
    /\ nact = 0
    /\ top \in RSAInputs

\* shouldDowngradeKey(k, minKeySize)
ShouldDowngradeCall ==
    /\ ret = NoRet
    /\ ret' = [from |-> "shouldDowngradeKey",
               val |-> shouldDowngradeRSA(top, top.minKeySize)]
    /\ UNCHANGED <<synced, handlers, stack, top, log, nact>>

NextRSA == ShouldDowngradeCall

SpecRSA == InitRSA /\ [][NextRSA]_vars

(***************************************************************************)
(* C32: the keys shouldDowngradeKey downgrades.                            *)
(***************************************************************************)
\* shouldDowngradeKey has returned for the key in top
DowngradeReturned == ret # NoRet /\ ret.from = "shouldDowngradeKey"

\* the key in top is of an RSA algorithm that is looked at
IsRSAKey == top.Algorithm \in {RSASHA256, RSASHA512}

\* the key in top has no exponent, a leading zero in its exponent or in its
\* modulus, or a modulus of less than 64 or more than 512 octets
MalformedKey ==
    \/ top.exp = <<>>
    \/ top.exp[1] = 0
    \/ top.modFirst = 0
    \/ top.modLen < 64
    \/ top.modLen > 512

\* the bits of the modulus of the key in top
ModulusBits == (top.modLen - 1) * 8 + BitLen8(top.modFirst)

\* C32 as stated: shouldDowngradeKey returns true exactly for an RSA/SHA-256
\* or RSA/SHA-512 key that decodes and is well formed, and whose exponent
\* exceeds 32 bits or whose modulus has less than minKeySize bits
C32_DowngradeOver32Bits ==
    DowngradeReturned
        => (ret.val <=> /\ IsRSAKey
                        /\ top.valid
                        /\ ~MalformedKey
                        /\ Len(top.exp) > 4 \/ ModulusBits < top.minKeySize)

\* C32, amended: shouldDowngradeKey returns true exactly for an RSA/SHA-256
\* or RSA/SHA-512 key that decodes to at least 66 octets and either has an
\* exponent of more than 4 octets, whatever the rest of the key, or is well
\* formed and has an exponent above 2^31 - 1 or a modulus of less than
\* minKeySize bits
C32_DowngradeOver31Bits ==
    DowngradeReturned
        => (ret.val <=> /\ IsRSAKey
                        /\ top.valid
                        /\ Len(top.PublicKey.buf) >= 66
                        /\ \/ Len(top.exp) > 4
                           \/ /\ ~MalformedKey
                              /\ \/ Len(top.exp) = 4 /\ top.exp[1] >= 128
                                 \/ ModulusBits < top.minKeySize)

\* the exponent 2^31 with a modulus of 2048 bits is downgraded
C32_Witness ==
    /\ DowngradeReturned
    /\ ret.val
    /\ top.exp = <<128, 0, 0, 0>>
    /\ ~MalformedKey
    /\ ModulusBits = 2048
    /\ top.minKeySize = DefaultMinRSAKeySize

\* a modulus of 2041 bits is downgraded under the default minimum
WeakModulus ==
    /\ DowngradeReturned
    /\ ret.val
    /\ top.exp = <<1, 0, 1>>
    /\ ModulusBits = 2041

\* an exponent of five octets is downgraded though the modulus is too long
LongExponentFirst ==
    /\ DowngradeReturned
    /\ ret.val
    /\ Len(top.exp) > 4
    /\ top.modLen > 512

(***************************************************************************)
(* C33: the three outcomes of verifySignatures.                            *)
(***************************************************************************)
\* the record at index i of the section sec of the given message is a
\* signature that verifies: its owner is in the zone, its key is trusted, of
\* the signer's name and not downgradable, and the signature is valid now
ValidSigAt(sec, i) ==
    /\ VerifiedSig(GivenMsg[sec][i], GivenMsg[sec])
    /\ IsSubDomain(top.zone, CanonicalName(GivenMsg[sec][i].owner))

\* an rrset of the answer or of the authority section verifies
AnyVerified ==
    \E sec \in {"Answer", "Ns"} : \E i \in DOMAIN GivenMsg[sec] : ValidSigAt(sec, i)

\* the record at index i of the section sec is a signature that names a
\* trusted downgradable key of the signer's name
NamesWeakKey(sec, i) ==
    /\ GivenMsg[sec][i].rtype = "RRSIG"
    /\ GivenMsg[sec][i].data.KeyTag \in DOMAIN top.keys
    /\ EqualFold(top.keys[GivenMsg[sec][i].data.KeyTag].owner,
                 GivenMsg[sec][i].data.SignerName)
    /\ top.keys[GivenMsg[sec][i].data.KeyTag].data.weak

\* some signature of the message names a trusted downgradable key
WeakKeyNamed ==
    \E sec \in Sections : \E i \in DOMAIN GivenMsg[sec] : NamesWeakKey(sec, i)

\* the downgrade flag: some signature with an owner in the zone names a
\* trusted downgradable key, and no signature before it in its section has
\* verified the same rrset
DowngradeFlag ==
    \E sec \in Sections : \E i \in DOMAIN GivenMsg[sec] :
        /\ NamesWeakKey(sec, i)
        /\ IsSubDomain(top.zone, CanonicalName(GivenMsg[sec][i].owner))
        /\ ~\E j \in 1..(i - 1) :
               /\ ValidSigAt(sec, j)
               /\ EqualFold(GivenMsg[sec][j].owner, GivenMsg[sec][i].owner)
               /\ GivenMsg[sec][j].data.TypeCovered = GivenMsg[sec][i].data.TypeCovered

\* the errors of verifySignatures
SignatureErrors ==
    {ErrNoSignatures}
    \cup {<<"error verifying signatures: " \o e[1]>> :
             e \in {ErrSignatureBailiwick, ErrMissingDNSKEY, ErrMissingSigned,
                    ErrSig, ErrInvalidSignaturePeriod}}

\* the outcome of verifySignatures, given whether the downgrade applies
ThreeOutcomes(downgrade) ==
    Returned({"verifySignatures"}) =>
        IF AnyVerified
            THEN /\ ret.val.secure
                 /\ ret.val.err = nil
                 /\ OnlyVerified(ret.val.msg)
        ELSE IF downgrade
            THEN /\ ~ret.val.secure
                 /\ ret.val.err = nil
                 /\ ret.val.msg = GivenMsg
        ELSE /\ ~ret.val.secure
             /\ ret.val.err \in SignatureErrors

\* C33 as stated: verifySignatures returns Secure = true with pruned sections
\* if an rrset verified in Answer or Authority; otherwise Secure = false
\* without error and with the sections as on entry if some RRSIG named a
\* trusted downgradable key; otherwise Secure = false with NoSignatures or
\* the last recorded error
C33_ThreeOutcomes == ThreeOutcomes(WeakKeyNamed)

\* C33, amended: the second outcome is that of the downgrade flag, which a
\* signature naming a trusted downgradable key sets only if its owner is in
\* the zone and no earlier signature of its section has verified its rrset
C33_ThreeOutcomesOfFlag == ThreeOutcomes(DowngradeFlag)

\* the sections are given back as they were, a verified rrset of the
\* additional section and an unsigned answer included
C33_Witness ==
    /\ Returned({"verifySignatures"})
    /\ ~AnyVerified
    /\ DowngradeFlag
    /\ ret.val.msg = GivenMsg
    /\ \E i \in DOMAIN top.Extra : ValidSigAt("Extra", i)
    /\ top.Answer # <<>>

\* a verified rrset and the downgrade flag: Secure = true
VerifiedDespiteFlag ==
    /\ Returned({"verifySignatures"})
    /\ AnyVerified
    /\ DowngradeFlag
    /\ ret.val.secure

\* a downgradable key named by a signature outside the zone only: an error
StrayWeakKey ==
    /\ Returned({"verifySignatures"})
    /\ WeakKeyNamed
    /\ ~DowngradeFlag
    /\ ret.val.err = <<"error verifying signatures: " \o ErrSignatureBailiwick[1]>>

\* a downgradable key named after the rrset has verified in the additional
\* section only: NoSignatures
LateWeakKey ==
    /\ Returned({"verifySignatures"})
    /\ WeakKeyNamed
    /\ ~DowngradeFlag
    /\ ret.val.err = ErrNoSignatures

(***************************************************************************)
(* Signature stripping.  The name servers of the zones sd.forever. are     *)
(* delegated with a DS record and their DNSKEY response gives resolveNS a  *)
(* trusted key set without a downgradable key; the response to bogus.sd.   *)
(* forever. carries no signature that verifies, and its record is marked   *)
(* "wire-bogus".                                                           *)
(***************************************************************************)
\* Verify failed in activation id: resolveNS held trusted keys and the
\* response had no verifiable signature
VerifyFailedIn(id) == \E i \in EventsOf("verify", id) : log[i].arg = "error"

\* Verify failed in some activation of the query
VerifyFailed == \E i \in Pos : log[i].op = "verify" /\ log[i].arg = "error"

\* a record of the response without a verifiable signature is in rrs
Stripped(rrs) == \E i \in 1..Len(rrs) : rrs[i].data = "wire-bogus"

StrippedThenNextCNAME ==
    /\ Done
    /\ VerifyFailed
    /\ ret.val.Err = nil
    /\ ret.val.Secure

\* under SpecVerify: with the strong key alone as trusted key set, a
\* response in which no signature verifies makes Verify return an error and
\* resolveNS hand no record on
StrippedIsError ==
    (Returned({"resolveNS"}) /\ DOMAIN top.keys = {1} /\ ~AnyVerified) =>
        ret.val.err # nil /\ ~ret.val.secure /\ ret.flattened = <<>>

\* under SpecVerify: such a response with records in its answer
StrippedAnswerGiven ==
    Returned({"resolveNS"}) /\ DOMAIN top.keys = {1} /\ ~AnyVerified /\ Len(top.Answer) > 1

(***************************************************************************)
(* The Secure flag through flatten.                                        *)
(***************************************************************************)
\* flatten has just returned, and it was entered with Secure=false
FlattenedInsecure == ret.from = "flatten" /\ ~ret.frame.secure

\* C35: a flatten that is entered with Secure=false (the enclosing
\* delegation response was not validated) returns Secure=false on every
\* path, whether the response holds a CNAME whose target resolves securely
\* or further NS and DS records.
C35_SecureNeverRegained ==
    FlattenedInsecure => ~ret.val.Secure

\* flatten was entered with Secure=false for the unsigned response
\* [cs.d.forever. CNAME s.test.] and returned the stub's records as secure
InsecureCNAMEToSecure ==
    /\ FlattenedInsecure
    /\ HasType(ret.frame.rrs, "CNAME")
    /\ ret.val.Err = nil
    /\ ret.val.Secure

\* flatten was entered with Secure=false for the unsigned referral
\* and returned the next server's answer as insecure
InsecureReferral ==
    /\ FlattenedInsecure
    /\ HasType(ret.frame.rrs, "NS")
    /\ ret.val.Err = nil
    /\ ret.val.Records # <<>>
    /\ ~ret.val.Secure

\* without a CNAME in the list flatten never regains the flag
SecureRegainedOnlyByCNAME ==
    FlattenedInsecure /\ ret.val.Secure => HasType(ret.frame.rrs, "CNAME")

(***************************************************************************)
(* The supervision of the hnsd child process (package proc and the         *)
(* goroutine of main that reads hnsErrCh).  It is the source of the sync   *)
(* predicate the resolver is constructed with (a.proc.Synced).             *)
(*                                                                         *)
(* In this part the variables hold: top the HNSProc object, handlers the   *)
(* exec.Cmd objects created so far (a child process each), stack the       *)
(* position of every thread (the goroutines launched by goStart, the       *)
(* goroutine of main that selects on hnsErrCh, the UI thread and the       *)
(* resolver's callers of Synced), nact the wall clock in seconds, ret the  *)
(* value the last call of Synced returned, and log what has happened since *)
(* the last Stop and the last reset of the retry counter.                  *)
(*                                                                         *)
(* A method that holds h.Lock() is one step.  Synced holds only h.RLock()  *)
(* and writes h.synced, so it is two steps (the read and the write) that   *)
(* interleave with those of other callers of Synced; goStart's goroutine   *)
(* takes no lock at all, so each statement that touches h.cmd is a step.   *)
(***************************************************************************)
proc == top

cmds == handlers

threads == stack

clock == nact

\* time.Time{}: the zero time
ZeroTime == 0

\* 20*time.Second, in seconds
SyncedAfter == 20

\* 10*time.Minute, in seconds
RetryResetAfter == 600

\* the supervisor gives up when Retries() is above this
MaxAttempts == 9

\* time.Since(t): the zero time lies further back than any duration
SinceExceeds(t, d) == t = ZeroTime \/ clock - t > d

\* how often the clock advances in one run
MaxTicks == 2

\* the calls of goStart in one run (one goroutine each): with the user's
\* clicks, and with the user's first click alone
MaxStarts == 3

MaxRestarts == 12

\* the clicks of the user on Start and Stop in one run
MaxUserOps == 3

\* the height lines a goroutine reads from one pipe
MaxLines == 1

\* the block heights hnsd prints; 0 is also what a line that does not parse gives
Heights == {0, 1}

\* the resolver's goroutines that call Synced
Callers == {1, 2}

\* NewHNSProc: the fields of a new HNSProc (cmd 0 is nil)
NewHNSProc ==
    [procStarted |-> FALSE, height |-> 0, lastHeightUpdate |-> ZeroTime,
     synced |-> FALSE, retryCount |-> 0, lastRetry |-> ZeroTime, cmd |-> 0,
     readers |-> 0]

\* no goroutine holds h.RLock(), so h.Lock() succeeds
CanLock == proc.readers = 0

\* the app has not exited
Running == threads.sup.pc # "exited"

\* the child processes that are alive
Alive == {c \in DOMAIN cmds : cmds[c].state = "running"}

\* killProcess: Kill on the process of h.cmd, if it has one
killProcess(cs, c, by) ==
    IF c = 0 \/ cs[c].state # "running" THEN cs
    ELSE [cs EXCEPT ![c].state = "exited", ![c].killed = by]

\* Stop, under h.Lock()
StopFields(p) ==
    [p EXCEPT !.procStarted = FALSE, !.height = 0,
              !.lastHeightUpdate = ZeroTime, !.synced = FALSE]

\* a goroutine launched by goStart
NewGoroutine == [pc |-> "create", pipe |-> 0, lines |-> 0]

\* a goroutine that has returned
Returned0 == [pc |-> "done", pipe |-> 0, lines |-> 0]

\* an exec.Cmd that nothing refers to any more and whose process is not alive
Garbage == [state |-> "gone", piped |-> TRUE, killed |-> "no"]

\* the Cmd objects cs once the garbage is collected: h.cmd is c, the threads are th
Collect(cs, c, th) ==
    [i \in DOMAIN cs |->
        IF /\ cs[i].state # "running"
           /\ i # c
           /\ i # th.sup.of
           /\ \A g \in DOMAIN th.go : th.go[g].pipe # i
        THEN Garbage ELSE cs[i]]

\* the state after NewApp, for a run with at most max calls of goStart and
\* at most clicks clicks of the user
InitWith(max, clicks) ==
    /\ synced = FALSE
    /\ top = NewHNSProc
    /\ handlers = <<>>
    /\ stack = [go |-> <<>>, max |-> max,
                sup |-> [pc |-> "select", of |-> 0, stale |-> "no"],
                ui |-> [pc |-> "idle", ops |-> 0, max |-> clicks],
                call |-> [c \in Callers |-> [pc |-> "idle", hit |-> FALSE, val |-> FALSE,
                                             late |-> FALSE, cold |-> FALSE]]]
    /\ nact = 1
    /\ ret = NoRet
    /\ log = [latched |-> FALSE, updated |-> FALSE, stopped |-> FALSE,
              restarts |-> 0, ticks |-> 0]

InitProc == InitWith(MaxStarts, MaxUserOps)

InitRetry == InitWith(MaxRestarts, 1)

\* the wall clock advances by d seconds
Tick(d) ==
    /\ log.ticks < MaxTicks
    /\ nact' = nact + d
    /\ log' = [log EXCEPT !.ticks = @ + 1]
    /\ UNCHANGED <<synced, handlers, stack, ret, top>>

\* Start, first statement: if h.Started() { return }
StartCheck(who) ==
    /\ Running
    /\ threads[who].pc = (IF who = "ui" THEN "idle" ELSE "start")
    /\ who = "ui" => threads.ui.ops < threads.ui.max
    /\ stack' = [stack EXCEPT
                   ![who].pc = IF proc.procStarted
                               THEN (IF who = "ui" THEN "idle" ELSE "select")
                               ELSE "spawn",
                   !.sup.stale = IF who = "sup" /\ proc.procStarted THEN "no" ELSE @,
                   !.ui.ops = IF who = "ui" THEN @ + 1 ELSE @]
    /\ UNCHANGED <<synced, handlers, ret, top, log, nact>>

\* Start, under h.Lock(): goStart launches the goroutine, procStarted = true
StartLocked(who) ==
    /\ Running
    /\ threads[who].pc = "spawn"
    /\ CanLock
    /\ Len(threads.go) < threads.max
    /\ stack' = [stack EXCEPT !.go = Append(@, NewGoroutine),
                              ![who].pc = IF who = "ui" THEN "idle" ELSE "select",
                              !.sup.stale = IF who = "sup" THEN "no" ELSE @]
    /\ top' = [top EXCEPT !.procStarted = TRUE]
    /\ log' = [log EXCEPT !.stopped = FALSE,
                          !.restarts = IF who = "sup" THEN @ + 1 ELSE @]
    /\ UNCHANGED <<synced, handlers, ret, nact>>

\* Stop, under h.Lock(), called by the thread who
StopBy(who) ==
    /\ CanLock
    /\ handlers' = killProcess(cmds, proc.cmd, who)
    /\ top' = StopFields(proc)
    /\ log' = [log EXCEPT !.latched = FALSE, !.updated = FALSE, !.stopped = TRUE]

\* ui.OnStop: app.stop() calls a.proc.Stop()
UserStop ==
    /\ Running
    /\ threads.ui.pc = "idle"
    /\ threads.ui.ops < threads.ui.max
    /\ StopBy("ui")
    /\ stack' = [stack EXCEPT !.ui.ops = @ + 1]
    /\ UNCHANGED <<synced, ret, nact>>

\* Synced, under h.RLock(): the latch is read and the value computed
SyncedBegin(c) ==
    /\ Running
    /\ threads.call[c].pc = "idle"
    /\ top' = [top EXCEPT !.readers = @ + 1]
    /\ stack' = [stack EXCEPT !.call[c] =
                   [pc |-> "in",
                    hit |-> proc.synced,
                    val |-> \/ proc.synced
                            \/ /\ proc.lastHeightUpdate # ZeroTime
                               /\ clock - proc.lastHeightUpdate > SyncedAfter,
                    late |-> log.latched,
                    cold |-> log.stopped /\ ~log.updated]]
    /\ UNCHANGED <<synced, handlers, ret, log, nact>>

\* Synced: the value h.synced holds when the call returns
syncedStore(p, call) == IF call.hit THEN p.synced ELSE call.val

\* Synced: h.synced is written (unless the latch was set) and the call returns
SyncedEnd(c) ==
    /\ threads.call[c].pc = "in"
    /\ LET call == threads.call[c]
       IN  /\ top' = [top EXCEPT !.readers = @ - 1, !.synced = syncedStore(proc, call)]
           /\ ret' = [from |-> "Synced", val |-> call.val, late |-> call.late,
                      cold |-> call.cold]
           /\ log' = [log EXCEPT !.latched = @ \/ call.val]
    /\ stack' = [stack EXCEPT !.call[c].pc = "idle"]
    /\ UNCHANGED <<synced, handlers, nact>>

\* goStart's goroutine: h.cmd = exec.Command(h.path, h.args...)
GoCommand(g) ==
    /\ Running
    /\ threads.go[g].pc = "create"
    /\ handlers' = Collect(Append(cmds, [state |-> "new", piped |-> FALSE, killed |-> "no"]),
                            Len(cmds) + 1, threads)
    /\ top' = [top EXCEPT !.cmd = Len(cmds) + 1]
    /\ stack' = [stack EXCEPT !.go[g].pc = "pipe"]
    /\ UNCHANGED <<synced, ret, log, nact>>

\* goStart's goroutine: pipe, err := h.cmd.StdoutPipe()
GoPipe(g) ==
    /\ Running
    /\ threads.go[g].pc = "pipe"
    /\ LET c == proc.cmd
       IN  IF cmds[c].piped \/ cmds[c].state # "new"
           THEN /\ stack' = [stack EXCEPT !.go[g] = Returned0]
                /\ UNCHANGED handlers
           ELSE /\ handlers' = [handlers EXCEPT ![c].piped = TRUE]
                /\ stack' = [stack EXCEPT !.go[g].pc = "start", !.go[g].pipe = c]
    /\ UNCHANGED <<synced, ret, top, log, nact>>

\* goStart's goroutine: h.cmd.Start(), which may fail
GoStart(g) ==
    /\ Running
    /\ threads.go[g].pc = "start"
    /\ LET c == proc.cmd
       IN  IF cmds[c].state # "new"
           THEN /\ stack' = [stack EXCEPT !.go[g].pc = "send"]
                /\ UNCHANGED handlers
           ELSE \E ok \in BOOLEAN :
                   IF ok
                   THEN /\ handlers' = [handlers EXCEPT ![c].state = "running"]
                        /\ stack' = [stack EXCEPT !.go[g].pc = "scan"]
                   ELSE /\ handlers' = [handlers EXCEPT ![c].state = "failed"]
                        /\ stack' = [stack EXCEPT !.go[g].pc = "send"]
    /\ UNCHANGED <<synced, ret, top, log, nact>>

\* SetHeight, under h.Lock()
SetHeight(p, height) ==
    IF p.height = height THEN p
    ELSE [p EXCEPT !.height = height, !.lastHeightUpdate = clock]

\* monitor: a line "chain (height)" is read and SetHeight is called
MonitorLine(g) ==
    /\ Running
    /\ threads.go[g].pc = "scan"
    /\ threads.go[g].lines < MaxLines
    /\ cmds[threads.go[g].pipe].state \in {"running", "exited"}
    /\ CanLock
    /\ \E height \in Heights :
          /\ top' = SetHeight(proc, height)
          /\ log' = [log EXCEPT !.updated = @ \/ proc.height # height]
    /\ stack' = [stack EXCEPT !.go[g].pc = "reset", !.go[g].lines = @ + 1]
    /\ UNCHANGED <<synced, handlers, ret, nact>>

\* maybeResetRetries: the last retry is more than ten minutes ago
retriesExpired(p) == SinceExceeds(p.lastRetry, RetryResetAfter)

\* monitor: maybeResetRetries, under h.Lock()
MonitorReset(g) ==
    /\ Running
    /\ threads.go[g].pc = "reset"
    /\ CanLock
    /\ IF retriesExpired(proc)
       THEN /\ top' = [top EXCEPT !.retryCount = 0, !.lastRetry = ZeroTime]
            /\ log' = [log EXCEPT !.restarts = 0]
       ELSE UNCHANGED <<top, log>>
    /\ stack' = [stack EXCEPT !.go[g].pc = "scan"]
    /\ UNCHANGED <<synced, handlers, ret, nact>>

\* monitor: the pipe is closed, sc.Scan() returns false
MonitorEOF(g) ==
    /\ Running
    /\ threads.go[g].pc = "scan"
    /\ cmds[threads.go[g].pipe].state = "exited"
    /\ stack' = [stack EXCEPT !.go[g].pc = "wait"]
    /\ UNCHANGED <<synced, handlers, ret, top, log, nact>>

\* monitor: h.cmd.Wait() returns (it blocks while the process of h.cmd runs)
MonitorWait(g) ==
    /\ Running
    /\ threads.go[g].pc = "wait"
    /\ cmds[proc.cmd].state # "running"
    /\ stack' = [stack EXCEPT !.go[g].pc = "send"]
    /\ UNCHANGED <<synced, handlers, ret, top, log, nact>>

\* a child process exits by itself
ProcessExit(c) ==
    /\ Running
    /\ cmds[c].state = "running"
    /\ handlers' = [handlers EXCEPT ![c].state = "exited"]
    /\ UNCHANGED <<synced, stack, ret, top, log, nact>>

\* main: case err := <-hnsErrCh, the send of goroutine g completes
SupReceive(g) ==
    /\ Running
    /\ threads.sup.pc = "select"
    /\ threads.go[g].pc = "send"
    /\ stack' = [stack EXCEPT !.go[g] = Returned0,
                              !.sup = [pc |-> "check", of |-> threads.go[g].pipe,
                                       stale |-> "no"]]
    /\ UNCHANGED <<synced, handlers, ret, top, log, nact>>

\* main: if !app.proc.Started() { continue }
supIgnores(p) == ~p.procStarted

\* whether the process whose exit was notified was stopped by the user or is
\* no longer the one of h.cmd
Stale(c) ==
    IF cmds[c].killed = "ui" THEN "stopped"
    ELSE IF c # proc.cmd THEN "replaced"
    ELSE "no"

SupCheck ==
    /\ threads.sup.pc = "check"
    /\ stack' = [stack EXCEPT
                   !.sup = [pc |-> IF supIgnores(proc) THEN "select" ELSE "retries",
                            of |-> 0,
                            stale |-> IF supIgnores(proc) THEN "no" ELSE Stale(threads.sup.of)]]
    /\ handlers' = Collect(cmds, proc.cmd, stack')
    /\ UNCHANGED <<synced, ret, top, log, nact>>

\* a supervisor that gives up one crash later
givesUpLate(attempts) == attempts > MaxAttempts + 1

\* main: if attempts > 9
givesUp(attempts) == attempts > MaxAttempts

\* main: attempts := app.proc.Retries()
SupRetries ==
    /\ threads.sup.pc = "retries"
    /\ stack' = [stack EXCEPT !.sup.pc = IF givesUp(proc.retryCount) THEN "fatal" ELSE "incr"]
    /\ UNCHANGED <<synced, handlers, ret, top, log, nact>>

\* main: app.stop() and log.Fatal(err)
SupFatal ==
    /\ threads.sup.pc = "fatal"
    /\ StopBy("sup")
    /\ stack' = [stack EXCEPT !.sup.pc = "exited"]
    /\ UNCHANGED <<synced, ret, nact>>

\* main: app.proc.IncrementRetries(), under h.Lock()
SupIncrement ==
    /\ threads.sup.pc = "incr"
    /\ CanLock
    /\ top' = [top EXCEPT !.retryCount = @ + 1, !.lastRetry = clock]
    /\ stack' = [stack EXCEPT !.sup.pc = "stop"]
    /\ UNCHANGED <<synced, handlers, ret, log, nact>>

\* main: app.proc.Stop()
SupStop ==
    /\ threads.sup.pc = "stop"
    /\ StopBy("sup")
    /\ stack' = [stack EXCEPT !.sup.pc = "start"]
    /\ UNCHANGED <<synced, ret, nact>>

\* h.SetHeight(height), called while no process is being monitored
SetHeightCall(height) ==
    /\ CanLock
    /\ top' = SetHeight(proc, height)
    /\ log' = [log EXCEPT !.updated = @ \/ proc.height # height]
    /\ UNCHANGED <<synced, handlers, stack, ret, nact>>

\* the HNSProc object under calls of Synced, SetHeight and Stop
NextSynced ==
    \/ Tick(SyncedAfter + 1)
    \/ UserStop
    \/ \E height \in Heights : SetHeightCall(height)
    \/ \E c \in Callers : SyncedBegin(c)
    \/ \E c \in Callers : SyncedEnd(c)

SpecSynced == InitProc /\ [][NextSynced]_vars

\* the app with the user clicking Start and Stop; within MaxStarts calls of
\* goStart the retry counter stays below the limit, so the supervisor's
\* fatal exit is a step of NextRetry only
NextProc ==
    \/ Tick(RetryResetAfter + 1)
    \/ \E who \in {"ui", "sup"} : StartCheck(who)
    \/ \E who \in {"ui", "sup"} : StartLocked(who)
    \/ UserStop
    \/ \E g \in DOMAIN threads.go : GoCommand(g)
    \/ \E g \in DOMAIN threads.go : GoPipe(g)
    \/ \E g \in DOMAIN threads.go : GoStart(g)
    \/ \E g \in DOMAIN threads.go : MonitorLine(g)
    \/ \E g \in DOMAIN threads.go : MonitorReset(g)
    \/ \E g \in DOMAIN threads.go : MonitorEOF(g)
    \/ \E g \in DOMAIN threads.go : MonitorWait(g)
    \/ \E c \in DOMAIN cmds : ProcessExit(c)
    \/ \E g \in DOMAIN threads.go : SupReceive(g)
    \/ SupCheck
    \/ SupRetries
    \/ SupIncrement
    \/ SupStop

SpecProc == InitProc /\ [][NextProc]_vars

\* the app is started once and the user leaves it alone
NextRetry ==
    \/ Tick(RetryResetAfter + 1)
    \/ \E who \in {"ui", "sup"} : StartCheck(who)
    \/ \E who \in {"ui", "sup"} : StartLocked(who)
    \/ \E g \in DOMAIN threads.go : GoCommand(g)
    \/ \E g \in DOMAIN threads.go : GoPipe(g)
    \/ \E g \in DOMAIN threads.go : GoStart(g)
    \/ \E g \in DOMAIN threads.go : MonitorLine(g)
    \/ \E g \in DOMAIN threads.go : MonitorReset(g)
    \/ \E g \in DOMAIN threads.go : MonitorEOF(g)
    \/ \E g \in DOMAIN threads.go : MonitorWait(g)
    \/ \E c \in DOMAIN cmds : ProcessExit(c)
    \/ \E g \in DOMAIN threads.go : SupReceive(g)
    \/ SupCheck
    \/ SupRetries
    \/ SupFatal
    \/ SupIncrement
    \/ SupStop

SpecRetry == InitRetry /\ [][NextRetry]_vars

(***************************************************************************)
(* The latch of Synced.  A call is late when an earlier call has returned  *)
(* true since the last Stop, and cold when it began after a Stop with no   *)
(* height update recorded since.                                           *)
(***************************************************************************)
\* a call of Synced has just returned
SyncedReturned == ret.from = "Synced"

\* C36: once Synced() has returned true, every later call returns true
\* until Stop() is called, under any interleaving of concurrent calls of
\* Synced() and SetHeight(); after Stop() it returns false until a new
\* height update has been recorded.
C36_SyncedLatches ==
    SyncedReturned =>
        /\ ret.late => ret.val
        /\ ret.cold => ~ret.val

\* a call that began after Stop and before any height update returned false
ColdCallFalse == SyncedReturned /\ ret.cold /\ ~ret.val

\* a call that began after another had returned true returned true
LateCallTrue == SyncedReturned /\ ret.late /\ ret.val

\* Synced returned false to a call that began after another call had
\* returned true, with no Stop in between
LatchLost == SyncedReturned /\ ret.late /\ ~ret.val

\* no call that began after Stop and before a height update returns true
ColdNeverTrue == SyncedReturned /\ ret.cold => ~ret.val

(***************************************************************************)
(* The child processes.                                                    *)
(***************************************************************************)
\* C37: at most one hnsd child process is alive at any time, and none is
\* alive after Stop() has returned (until Start() is called again), under
\* any interleaving of Start() and Stop() with the goroutine that goStart
\* launches.
C37_OneProcess ==
    /\ Cardinality(Alive) <= 1
    /\ log.stopped => Alive = {}

\* a process is alive although Stop() has returned and Start() was not
\* called since
AliveAfterStop == log.stopped /\ Alive # {}

\* two processes are alive
TwoAlive == Cardinality(Alive) >= 2

\* Stop() has killed the running process
KilledByStop ==
    /\ log.stopped
    /\ Alive = {}
    /\ \E c \in DOMAIN cmds : cmds[c].killed = "ui"

(***************************************************************************)
(* The supervisor and stale exit notifications.  threads.sup.stale tells   *)
(* whether the supervisor has gone on past `if !app.proc.Started()` with a *)
(* notification of a process that the user had stopped ("stopped") or that *)
(* was no longer the one of h.cmd ("replaced").                            *)
(***************************************************************************)
\* the supervisor is restarting hnsd
Restarting == threads.sup.pc \in {"retries", "fatal", "incr", "stop", "start", "spawn"}

\* C38: the supervisor restarts hnsd only in response to the exit of the
\* process that is currently running; an exit notification of a process
\* that was stopped by the user or already replaced is ignored: it never
\* gets the running process killed, the retry counter incremented or
\* further restarts started.
C38_StaleIgnored ==
    Restarting => threads.sup.stale = "no"

\* the supervisor has taken the exit of the running process for a crash and
\* restarts it
CrashRestarted ==
    /\ threads.sup.pc = "start"
    /\ threads.sup.stale = "no"
    /\ proc.retryCount = 1

\* the supervisor has incremented the retry counter for a stale notification
RetryForStale ==
    /\ threads.sup.pc = "stop"
    /\ threads.sup.stale = "stopped"
    /\ proc.retryCount > 0

\* the supervisor's Stop has killed a running process for a stale notification
StaleKillsRunning ==
    /\ threads.sup.pc = "start"
    /\ threads.sup.stale # "no"
    /\ proc.cmd # 0
    /\ cmds[proc.cmd].killed = "sup"

\* the supervisor restarts again for the exit of the process that its own
\* Stop killed while handling a stale notification
Cascade ==
    /\ Restarting
    /\ proc.retryCount >= 2
    /\ \A c \in DOMAIN cmds : cmds[c].state # "failed"
    /\ Cardinality({c \in DOMAIN cmds : cmds[c].killed = "sup"}) >= 1

\* a notification is ignored because the user has stopped hnsd
StoppedIgnored ==
    /\ threads.sup.pc = "select"
    /\ ~proc.procStarted
    /\ \E g \in DOMAIN threads.go : threads.go[g] = Returned0
    /\ \E c \in DOMAIN cmds : cmds[c].killed = "ui"

(***************************************************************************)
(* The retry counter.  log.restarts counts the calls of goStart that the   *)
(* supervisor has made since the counter was last reset.                   *)
(***************************************************************************)
\* the supervisor is between IncrementRetries() and the goStart of Start()
MidRestart == threads.sup.pc \in {"stop", "start", "spawn"}

\* the retry counter and the supervisor's restarts since its last reset
RetriesBounded ==
    /\ proc.retryCount <= MaxAttempts + 1
    /\ log.restarts <= MaxAttempts + 1
    /\ proc.retryCount = log.restarts + (IF MidRestart THEN 1 ELSE 0)
    /\ threads.sup.pc = "incr" => proc.retryCount <= MaxAttempts
    /\ threads.sup.pc \in {"fatal", "exited"} => proc.retryCount = MaxAttempts + 1

\* a step that changes the retry counter, and the steps of the supervisor
\* that has observed a crash with the counter above 9
RetryStep ==
    /\ top'.retryCount # proc.retryCount =>
          \/ /\ top'.retryCount = proc.retryCount + 1
             /\ threads.sup.pc = "incr"
             /\ stack'.sup.pc = "stop"
          \/ /\ top'.retryCount = 0
             /\ SinceExceeds(proc.lastRetry, RetryResetAfter)
             /\ \E g \in DOMAIN threads.go :
                   threads.go[g].pc = "reset" /\ stack'.go[g].pc = "scan"
    /\ (threads.sup.pc = "retries" /\ proc.retryCount > MaxAttempts) =>
          stack'.sup.pc \in {"retries", "fatal"}
    /\ threads.sup.pc = "fatal" => stack'.sup.pc \in {"fatal", "exited"}
    /\ threads.sup.pc = "exited" => UNCHANGED <<top, handlers, stack>>

\* C39: automatic restarts of a crashing hnsd are bounded: the retry
\* counter is incremented once per automatic restart and is reset to zero
\* only by maybeResetRetries (a height line that arrives more than 10
\* minutes after the last retry); when a crash is observed with the counter
\* above 9 the app stops and exits instead of restarting, so at most 10
\* consecutive automatic restarts happen without a reset.
C39_RetriesBounded == [](RetriesBounded) /\ [][RetryStep]_vars

\* the app has exited after ten automatic restarts in a row
C39_Witness ==
    /\ threads.sup.pc = "exited"
    /\ log.restarts = MaxAttempts + 1
    /\ Len(threads.go) = MaxAttempts + 2
    /\ Alive = {}

\* a height line has reset the counter after some restarts, and hnsd has
\* been restarted again since
ResetThenRestart ==
    /\ log.ticks > 0
    /\ Len(threads.go) >= 4
    /\ proc.retryCount = 1
    /\ log.restarts = 1

====
